---- MODULE Spec2Model ----
(***************************************************************************)
(* A model of .github/workflows/tools/daily-status.py: the classification  *)
(* of CI statuses into Outcomes, the three fetch loops of main() and the    *)
(* subject/body computed by DailyStatus.get_subject_body.                   *)
(*                                                                          *)
(* Conventions.                                                             *)
(*  - An Outcome member is written by its member name ("PASS", ...); its    *)
(*    Enum value is OutcomeValue(oc).                                       *)
(*  - Python's None is the string PyNone.                                   *)
(*  - A call that may raise yields [kind |-> "return", value |-> v] or      *)
(*    [kind |-> "raise", value |-> <exception type>].                       *)
(*  - A datetime is [t, secs, micros, tzinfo, utcoff]: the day, counted     *)
(*    so that day 12 is 2021-03-12, the second of the day, the microsecond, *)
(*    the tzinfo (PyNone, "UTC" or a tzoffset) and its minutes from UTC.    *)
(*  - A dict and a Counter are the sequence of their <<key, value>> items   *)
(*    in insertion order.                                                   *)
(*  - The body string is kept as the sequence of the pieces the code        *)
(*    appends to it; the program's string is their concatenation.           *)
(***************************************************************************)
EXTENDS Integers, Sequences, FiniteSets, TLC

(***************************************************************************)
(* Module-level constants of the script.                                   *)
(***************************************************************************)
WINDOW == 1

WORKFLOW_REPO == "datalad/git-annex"

WORKFLOWS == <<"build-ubuntu.yaml", "build-macos.yaml", "build-windows.yaml">>

CLIENTS_REPO == "datalad/git-annex-ci-client-jobs"

APPVEYOR_PROJECT == "mih/git-annex"

PyNone == "<None>"

(***************************************************************************)
(* Bounds of the model.                                                    *)
(***************************************************************************)
\* Largest number of records (runs, builds, client entries, jobs, tests) in a Report.
MaxSize == 4
\* Largest number of records main() gathers in its three lists.
MaxGathered == 2
\* Largest number of builds on one page of the build history.
MaxPageLen == 2
\* Largest number of builds the build history holds.
MaxHistory == 3
\* The day on which the script starts.
StartDay == 12

(***************************************************************************)
(* Generic helpers: sequences and strings.                                 *)
(***************************************************************************)
Range(s) == {s[i] : i \in 1..Len(s)}

Last(s) == s[Len(s)]

SeqsUpTo(S, n) == UNION {[1..k -> S] : k \in 0..n}

Min(a, b) == IF a < b THEN a ELSE b

\* What a call does: it returns a value, or raises an exception of a type.
Return(v) == [kind |-> "return", value |-> v, msg |-> ""]

Raise(type, m) == [kind |-> "raise", value |-> type, msg |-> m]

RECURSIVE Join(_, _)
\* str.join: the strings of parts with sep between them.
Join(parts, sep) ==
    IF Len(parts) = 0 THEN ""
    ELSE IF Len(parts) = 1 THEN parts[1]
    ELSE parts[1] \o sep \o Join(Tail(parts), sep)

RECURSIVE Concat(_)
Concat(parts) == IF Len(parts) = 0 THEN "" ELSE parts[1] \o Concat(Tail(parts))

EndsWith(s, suffix) ==
    /\ Len(s) >= Len(suffix)
    /\ SubSeq(s, Len(s) - Len(suffix) + 1, Len(s)) = suffix

StartsWith(s, prefix) ==
    /\ Len(s) >= Len(prefix)
    /\ SubSeq(s, 1, Len(prefix)) = prefix

RECURSIVE saxutils_escape(_)
\* xml.sax.saxutils.escape: & < > become entities.
saxutils_escape(s) ==
    IF Len(s) = 0 THEN ""
    ELSE LET c == SubSeq(s, 1, 1)
             e == CASE c = "&" -> "&amp;"
                    [] c = "<" -> "&lt;"
                    [] c = ">" -> "&gt;"
                    [] OTHER -> c
         IN  e \o saxutils_escape(SubSeq(s, 2, Len(s)))

\* The names the Reports of this model hold, each with what escape makes of it,
\* worked out once.
Escaped ==
    [data \in {"build & test", "Environment: <x>", "alpha", "beta", "a-b", "annex", "t<1>"}
                \cup {"Build on " \o WORKFLOWS[i] : i \in 1..Len(WORKFLOWS)}
        |-> saxutils_escape(data)]

\* escape(data), as the script calls it.
escape(data) ==
    LET Lookup(known) ==
            IF data \in DOMAIN known THEN known[data] ELSE saxutils_escape(data)
    IN  Lookup(Escaped)

\* The characters of a str that str.isprintable() refuses, each with the escape
\* repr() writes for it.  (A TLA+ string holds the characters up to U+00FF, but for
\* U+0000.)
ReprEscapes ==
    <<
       <<"", "\\x01">>, <<"", "\\x02">>, <<"", "\\x03">>, <<"", "\\x04">>,
       <<"", "\\x05">>, <<"", "\\x06">>, <<"", "\\x07">>, <<"", "\\x08">>,
       <<"\t", "\\t">>, <<"\n", "\\n">>, <<"", "\\x0b">>, <<"\f", "\\x0c">>,
       <<"\r", "\\r">>, <<"", "\\x0e">>, <<"", "\\x0f">>, <<"", "\\x10">>,
       <<"", "\\x11">>, <<"", "\\x12">>, <<"", "\\x13">>, <<"", "\\x14">>,
       <<"", "\\x15">>, <<"", "\\x16">>, <<"", "\\x17">>, <<"", "\\x18">>,
       <<"", "\\x19">>, <<"", "\\x1a">>, <<"", "\\x1b">>, <<"", "\\x1c">>,
       <<"", "\\x1d">>, <<"", "\\x1e">>, <<"", "\\x1f">>, <<"", "\\x7f">>,
       <<"", "\\x80">>, <<"", "\\x81">>, <<"", "\\x82">>, <<"", "\\x83">>,
       <<"", "\\x84">>, <<"", "\\x85">>, <<"", "\\x86">>, <<"", "\\x87">>,
       <<"", "\\x88">>, <<"", "\\x89">>, <<"", "\\x8a">>, <<"", "\\x8b">>,
       <<"", "\\x8c">>, <<"", "\\x8d">>, <<"", "\\x8e">>, <<"", "\\x8f">>,
       <<"", "\\x90">>, <<"", "\\x91">>, <<"", "\\x92">>, <<"", "\\x93">>,
       <<"", "\\x94">>, <<"", "\\x95">>, <<"", "\\x96">>, <<"", "\\x97">>,
       <<"", "\\x98">>, <<"", "\\x99">>, <<"", "\\x9a">>, <<"", "\\x9b">>,
       <<"", "\\x9c">>, <<"", "\\x9d">>, <<"", "\\x9e">>, <<"", "\\x9f">>,
       <<" ", "\\xa0">>, <<"­", "\\xad">>
    >>

HasChar(s, c) == \E i \in 1..Len(s) : SubSeq(s, i, i) = c

\* What repr() writes for the character c inside the quotes quote.
\* The characters repr() writes as an escape, whatever the quote.
ReprEscaped == {ReprEscapes[i][1] : i \in 1..Len(ReprEscapes)}

ReprChar(c, quote) ==
    IF c = "\\" \/ c = quote THEN "\\" \o c
    ELSE IF c \in ReprEscaped
    THEN ReprEscapes[CHOOSE i \in 1..Len(ReprEscapes) : ReprEscapes[i][1] = c][2]
    ELSE c

RECURSIVE ReprBody(_, _)
ReprBody(s, quote) ==
    IF Len(s) = 0 THEN ""
    ELSE ReprChar(SubSeq(s, 1, 1), quote) \o ReprBody(SubSeq(s, 2, Len(s)), quote)

\* repr() of a str or None, as the f-string conversion !r gives it: in single
\* quotes, or in double quotes when the str holds a single quote and no double one.
repr(s) ==
    IF s = PyNone THEN "None"
    ELSE LET quote == IF HasChar(s, "'") /\ ~HasChar(s, "\"") THEN "\"" ELSE "'"
         IN  quote \o ReprBody(s, quote) \o quote

\* A decimal digit, as \d and int() take it.  Of the characters a TLA+ string holds
\* (up to U+00FF) the decimal digits are the ten of ASCII.
IsDigit(c) == c \in {"0", "1", "2", "3", "4", "5", "6", "7", "8", "9"}

AllDigits(s) == Len(s) > 0 /\ \A i \in 1..Len(s) : IsDigit(SubSeq(s, i, i))

RECURSIVE ParseNat(_)
\* The number a string of decimal digits writes.
ParseNat(s) ==
    LET c == SubSeq(s, Len(s), Len(s))
        DigitVal ==
            CASE c = "0" -> 0 [] c = "1" -> 1 [] c = "2" -> 2 [] c = "3" -> 3 [] c = "4" -> 4
              [] c = "5" -> 5 [] c = "6" -> 6 [] c = "7" -> 7 [] c = "8" -> 8 [] c = "9" -> 9
    IN  IF Len(s) = 0 THEN 0
        ELSE ParseNat(SubSeq(s, 1, Len(s) - 1)) * 10 + DigitVal

\* re.fullmatch(r"result-(.+)-(\d+)", branch): <<>> for None, else <<the groups>>.
\* The greedy (.+) leaves to (\d+) the digits after the last "-"; the dot matches
\* every character but the newline.
match_result_branch(branch) ==
    LET dashes == {i \in 1..Len(branch) : SubSeq(branch, i, i) = "-"}
        k == IF dashes = {} THEN 0 ELSE CHOOSE i \in dashes : \A j \in dashes : j <= i
    IN
    IF /\ StartsWith(branch, "result-")
       /\ k > 8
       /\ ~HasChar(SubSeq(branch, 8, k - 1), "\n")
       /\ AllDigits(SubSeq(branch, k + 1, Len(branch)))
    THEN <<[g1 |-> SubSeq(branch, 8, k - 1), g2 |-> SubSeq(branch, k + 1, Len(branch))]>>
    ELSE <<>>

\* The whitespace int() passes over at both ends of its argument.
IntBlanks == {" ", "\t", "\n", "\f", "\r", "", "", " "}

RECURSIVE TrimBlanks(_)
TrimBlanks(s) ==
    IF Len(s) = 0 THEN s
    ELSE IF SubSeq(s, 1, 1) \in IntBlanks THEN TrimBlanks(SubSeq(s, 2, Len(s)))
    ELSE IF SubSeq(s, Len(s), Len(s)) \in IntBlanks THEN TrimBlanks(SubSeq(s, 1, Len(s) - 1))
    ELSE s

\* The digits of an int literal: decimal digits, with single underscores between them.
IntDigits(d) ==
    /\ Len(d) > 0
    /\ IsDigit(SubSeq(d, 1, 1))
    /\ IsDigit(SubSeq(d, Len(d), Len(d)))
    /\ \A i \in 1..Len(d) :
          \/ IsDigit(SubSeq(d, i, i))
          \/ SubSeq(d, i, i) = "_" /\ SubSeq(d, i + 1, i + 1) # "_"

RECURSIVE WithoutUnderscores(_)
WithoutUnderscores(d) ==
    IF Len(d) = 0 THEN ""
    ELSE (IF SubSeq(d, 1, 1) = "_" THEN "" ELSE SubSeq(d, 1, 1))
            \o WithoutUnderscores(SubSeq(d, 2, Len(d)))

\* int(text) for a str: whitespace around, an optional sign, the digits.
int_of_str(text) ==
    LET t == TrimBlanks(text)
        signed == Len(t) > 0 /\ SubSeq(t, 1, 1) \in {"+", "-"}
        digits == IF signed THEN SubSeq(t, 2, Len(t)) ELSE t
        n == ParseNat(WithoutUnderscores(digits))
    IN  IF IntDigits(digits)
        THEN [kind |-> "return",
              value |-> IF signed /\ SubSeq(t, 1, 1) = "-" THEN 0 - n ELSE n,
              msg |-> ""]
        ELSE [kind |-> "raise", value |-> "ValueError",
              msg |-> "invalid literal for int() with base 10: " \o repr(text)]

\* d[key] = value on a dict: a key it has keeps its place.
DictSet(d, key, value) ==
    IF \E i \in 1..Len(d) : d[i][1] = key
    THEN [i \in 1..Len(d) |-> IF d[i][1] = key THEN <<key, value>> ELSE d[i]]
    ELSE Append(d, <<key, value>>)

\* s[a:b] of Python: the characters a to b - 1, counted from 0.
PySlice(s, a, b) ==
    LET e == Min(b, Len(s)) IN IF a < e THEN SubSeq(s, a + 1, e) ELSE ""

\* int() of the bytes isoparse cuts out of its argument, which are all ASCII.
int_of_bytes(b) ==
    LET Checked(n) ==
            IF n.kind = "return" THEN n
            ELSE Raise("ValueError", "invalid literal for int() with base 10: b" \o repr(b))
    IN  Checked(int_of_str(b))

\* The days of month m of year y; February has 29 in a leap year.
DaysInMonth(y, m) ==
    IF m = 2 THEN (IF y % 4 = 0 /\ (y % 100 # 0 \/ y % 400 = 0) THEN 29 ELSE 28)
    ELSE IF m \in {4, 6, 9, 11} THEN 30 ELSE 31

\* date(y, m, d).toordinal(): the days from 0001-01-01, which is day 1.
ymd2ord(y, m, d) ==
    LET p == y - 1
        before == <<0, 31, 59, 90, 120, 151, 181, 212, 243, 273, 304, 334>>
    IN  p * 365 + (p \div 4) - (p \div 100) + (p \div 400)
            + before[m] + (IF m > 2 THEN DaysInMonth(y, 2) - 28 ELSE 0) + d

\* date.fromordinal(n), as <<year, month, day>>.
ord2ymd(n) ==
    LET n400 == (n - 1) \div 146097
        r400 == (n - 1) % 146097
        n100 == r400 \div 36524
        r100 == r400 % 36524
        n4 == r100 \div 1461
        n1 == (r100 % 1461) \div 365
        y == n400 * 400 + n100 * 100 + n4 * 4 + n1 + 1
        m == CHOOSE k \in 1..12 :
                ymd2ord(y, k, 1) <= n /\ n < ymd2ord(y, k, 1) + DaysInMonth(y, k)
    IN  IF n1 = 4 \/ n100 = 4 THEN <<y - 1, 12, 31>>
        ELSE <<y, m, n - ymd2ord(y, m, 1) + 1>>

\* A datetime is [t, secs, micros, tzinfo, utcoff]: t numbers the days from
\* 2021-02-28, so that t = 12 is 2021-03-12; secs are the seconds of the day and
\* micros the microseconds; tzinfo is PyNone, "UTC" or the repr of a tzoffset, and
\* utcoff its offset from UTC in minutes.
\* datetime(year, month, day, hour, minute, second, microsecond, tzinfo)
datetime(y, m, d, hh, mm, ss, us, tz) ==
    IF y < 1 \/ y > 9999
    THEN Raise("ValueError", "year " \o ToString(y) \o " is out of range")
    ELSE IF m < 1 \/ m > 12 THEN Raise("ValueError", "month must be in 1..12")
    ELSE IF d < 1 \/ d > DaysInMonth(y, m)
    THEN Raise("ValueError", "day is out of range for month")
    ELSE IF hh < 0 \/ hh > 23 THEN Raise("ValueError", "hour must be in 0..23")
    ELSE IF mm < 0 \/ mm > 59 THEN Raise("ValueError", "minute must be in 0..59")
    ELSE IF ss < 0 \/ ss > 59 THEN Raise("ValueError", "second must be in 0..59")
    ELSE Return([t |-> ymd2ord(y, m, d) - ymd2ord(2021, 2, 28),
                 secs |-> hh * 3600 + mm * 60 + ss,
                 micros |-> us, tzinfo |-> tz.tzinfo, utcoff |-> tz.utcoff])

\* str(n).zfill(width), for n >= 0
zfill(n, width) ==
    LET digits == ToString(n)
    IN  SubSeq("000000", 1, width - Len(digits)) \o digits

\* datetime.__str__: isoformat with a space between the date and the time
datetime_str(dt) ==
    LET Text(ymd, off) ==
            zfill(ymd[1], 4) \o "-" \o zfill(ymd[2], 2) \o "-" \o zfill(ymd[3], 2)
                \o " " \o zfill(dt.secs \div 3600, 2) \o ":" \o zfill((dt.secs \div 60) % 60, 2)
                \o ":" \o zfill(dt.secs % 60, 2)
                \o (IF dt.micros = 0 THEN "" ELSE "." \o zfill(dt.micros, 6))
                \o (IF dt.tzinfo = PyNone THEN ""
                    ELSE (IF dt.utcoff < 0 THEN "-" ELSE "+")
                            \o zfill(off \div 60, 2) \o ":" \o zfill(off % 60, 2))
    IN  Text(ord2ymd(dt.t + ymd2ord(2021, 2, 28)),
             IF dt.utcoff < 0 THEN 0 - dt.utcoff ELSE dt.utcoff)

\* The instant of a datetime: the day, the second and the microsecond it falls on
\* at its offset from UTC.
Instant(dt) ==
    <<dt.t + ((dt.secs - dt.utcoff * 60) \div 86400),
      (dt.secs - dt.utcoff * 60) % 86400,
      dt.micros>>

\* a <= b on two datetimes: a datetime without tzinfo and one with it do not compare.
datetime_le(a, b) ==
    LET Le(x, y) == \/ x[1] < y[1]
                    \/ x[1] = y[1] /\ x[2] < y[2]
                    \/ x[1] = y[1] /\ x[2] = y[2] /\ x[3] <= y[3]
    IN  IF (a.tzinfo = PyNone) # (b.tzinfo = PyNone)
        THEN Raise("TypeError", "can't compare offset-naive and offset-aware datetimes")
        ELSE Return(Le(Instant(a), Instant(b)))

\* dt.replace(tzinfo=timezone.utc) if dt.tzinfo is None else dt
ensure_aware(dt) ==
    IF dt.tzinfo = PyNone THEN [dt EXCEPT !.tzinfo = "UTC", !.utcoff = 0] ELSE dt

\* isoparser._parse_isodate_common: YYYY, YYYY-MM, YYYYMMDD or YYYY-MM-DD
parse_isodate_common(dt_str) ==
    LET len_str == Len(dt_str)
        has_sep == PySlice(dt_str, 4, 5) = "-"
        atm == IF has_sep THEN 5 ELSE 4
        atd == IF has_sep THEN atm + 3 ELSE atm + 2
        Components(year, month, day) ==
            IF len_str < 4 THEN Raise("ValueError", "ISO string too short")
            ELSE IF year.kind = "raise" THEN year
            ELSE IF 4 >= len_str THEN Return([ymd |-> <<year.value, 1, 1>>, pos |-> 4])
            ELSE IF len_str - atm < 2 THEN Raise("ValueError", "Invalid common month")
            ELSE IF month.kind = "raise" THEN month
            ELSE IF atm + 2 >= len_str
            THEN (IF has_sep
                  THEN Return([ymd |-> <<year.value, month.value, 1>>, pos |-> atm + 2])
                  ELSE Raise("ValueError", "Invalid ISO format"))
            ELSE IF has_sep /\ PySlice(dt_str, atm + 2, atm + 3) # "-"
            THEN Raise("ValueError", "Invalid separator in ISO string")
            ELSE IF len_str - atd < 2 THEN Raise("ValueError", "Invalid common day")
            ELSE IF day.kind = "raise" THEN day
            ELSE Return([ymd |-> <<year.value, month.value, day.value>>, pos |-> atd + 2])
    IN  Components(int_of_bytes(PySlice(dt_str, 0, 4)),
                   int_of_bytes(PySlice(dt_str, atm, atm + 2)),
                   int_of_bytes(PySlice(dt_str, atd, atd + 2)))

\* isoparser._calculate_weekdate: the ordinal of a day of the ISO week calendar.
calculate_weekdate(year, week, day) ==
    LET Found(jan_4) ==
            IF jan_4 - ((jan_4 + 6) % 7) + (week - 1) * 7 + (day - 1) > ymd2ord(9999, 12, 31)
            THEN Raise("OverflowError", "date value out of range")
            ELSE Return(jan_4 - ((jan_4 + 6) % 7) + (week - 1) * 7 + (day - 1))
    IN  IF ~(0 < week /\ week < 54)
        THEN Raise("ValueError", "Invalid week: " \o ToString(week))
        ELSE IF ~(0 < day /\ day < 8)
        THEN Raise("ValueError", "Invalid weekday: " \o ToString(day))
        ELSE IF year < 1 \/ year > 9999
        THEN Raise("ValueError", "year " \o ToString(year) \o " is out of range")
        ELSE Found(ymd2ord(year, 1, 4))

\* isoparser._parse_isodate_uncommon: YYYY-?Www-?D? or YYYY-?DDD
parse_isodate_uncommon(dt_str) ==
    LET len_str == Len(dt_str)
        has_sep == PySlice(dt_str, 4, 5) = "-"
        pos == IF has_sep THEN 5 ELSE 4
        more == len_str > pos + 3
        atd == IF has_sep THEN pos + 4 ELSE pos + 3
        Dated(base_date, after) ==
            IF base_date.kind = "raise" THEN base_date
            ELSE Return([ymd |-> ord2ymd(base_date.value), pos |-> after])
        Components(year, weekno, dayno, ordinal_day) ==
            IF len_str < 4 THEN Raise("ValueError", "ISO string too short")
            ELSE IF year.kind = "raise" THEN year
            ELSE IF PySlice(dt_str, pos, pos + 1) = "W"
            THEN IF weekno.kind = "raise" THEN weekno
                 ELSE IF more /\ ((PySlice(dt_str, pos + 3, pos + 4) = "-") # has_sep)
                 THEN Raise("ValueError", "Inconsistent use of dash separator")
                 ELSE IF dayno.kind = "raise" THEN dayno
                 ELSE Dated(calculate_weekdate(year.value, weekno.value, dayno.value),
                            IF more THEN atd + 1 ELSE pos + 3)
            ELSE IF len_str - pos < 3 THEN Raise("ValueError", "Invalid ordinal day")
            ELSE IF ordinal_day.kind = "raise" THEN ordinal_day
            ELSE IF \/ ordinal_day.value < 1
                    \/ ordinal_day.value > 337 + DaysInMonth(year.value, 2)
            THEN Raise("ValueError", "Invalid ordinal day " \o ToString(ordinal_day.value)
                                        \o " for year " \o ToString(year.value))
            ELSE IF year.value < 1 \/ year.value > 9999
            THEN Raise("ValueError", "year " \o ToString(year.value) \o " is out of range")
            ELSE Dated(Return(ymd2ord(year.value, 1, 1) + ordinal_day.value - 1), pos + 3)
    IN  Components(int_of_bytes(PySlice(dt_str, 0, 4)),
                   int_of_bytes(PySlice(dt_str, pos + 1, pos + 3)),
                   IF more THEN int_of_bytes(PySlice(dt_str, atd, atd + 1)) ELSE Return(1),
                   int_of_bytes(PySlice(dt_str, pos, pos + 3)))

\* isoparser._parse_tzstr: Z, or a sign, the hours and the minutes
parse_tzstr(tzstr) ==
    LET mult == IF PySlice(tzstr, 0, 1) = "-" THEN 0 - 1 ELSE 1
        Offset(hours, minutes) ==
            IF tzstr \in {"Z", "z"} THEN Return([tzinfo |-> "UTC", utcoff |-> 0])
            ELSE IF Len(tzstr) \notin {3, 5, 6}
            THEN Raise("ValueError", "Time zone offset must be 1, 3, 5 or 6 characters")
            ELSE IF PySlice(tzstr, 0, 1) \notin {"-", "+"}
            THEN Raise("ValueError", "Time zone offset requires sign")
            ELSE IF hours.kind = "raise" THEN hours
            ELSE IF minutes.kind = "raise" THEN minutes
            ELSE IF hours.value = 0 /\ minutes.value = 0
            THEN Return([tzinfo |-> "UTC", utcoff |-> 0])
            ELSE IF minutes.value > 59
            THEN Raise("ValueError", "Invalid minutes in time zone offset")
            ELSE IF hours.value > 23
            THEN Raise("ValueError", "Invalid hours in time zone offset")
            ELSE Return([tzinfo |-> "tzoffset(None, "
                                        \o ToString(mult * (hours.value * 60 + minutes.value) * 60)
                                        \o ")",
                         utcoff |-> mult * (hours.value * 60 + minutes.value)])
    IN  Offset(int_of_bytes(PySlice(tzstr, 1, 3)),
               IF Len(tzstr) = 3 THEN Return(0)
               ELSE int_of_bytes(PySlice(tzstr, IF PySlice(tzstr, 3, 4) = ":" THEN 4 ELSE 3,
                                         Len(tzstr))))

RECURSIVE parse_isotime_loop(_, _, _, _, _)
\* The while loop of isoparser._parse_isotime, at its test: pos, the component comp
\* last looked for, whether a colon was met after the hour, and the components
\* <<hour, minute, second, microsecond>> read so far.
parse_isotime_loop(timestr, pos, comp, has_sep, components) ==
    LET c == PySlice(timestr, pos, pos + 1)
        colon == (comp + 1 = 1 /\ c = ":") \/ (comp + 1 = 2 /\ has_sep)
        at == IF colon THEN pos + 1 ELSE pos
        rest == PySlice(timestr, pos + 1, Len(timestr))
        Step(tz, number, frac, us_str) ==
            IF ~(pos < Len(timestr) /\ comp < 5)
            THEN Return([components |-> components, tz |-> [tzinfo |-> PyNone, utcoff |-> 0],
                         pos |-> pos])
            ELSE IF c \in {"-", "+", "Z", "z"}
            THEN IF tz.kind = "raise" THEN tz
                 ELSE Return([components |-> components, tz |-> tz.value,
                              pos |-> Len(timestr)])
            ELSE IF comp + 1 = 2 /\ has_sep /\ c # ":"
            THEN Raise("ValueError", "Inconsistent use of colon separator")
            ELSE IF comp + 1 < 3
            THEN IF number.kind = "raise" THEN number
                 ELSE parse_isotime_loop(timestr, at + 2, comp + 1,
                                         has_sep \/ (comp + 1 = 1 /\ c = ":"),
                                         [components EXCEPT ![comp + 2] = number.value])
            ELSE IF comp + 1 = 3 /\ c \in {".", ","} /\ frac > 0
            THEN parse_isotime_loop(timestr, pos + 1 + frac, comp + 1, has_sep,
                                    [components EXCEPT
                                        ![4] = ParseNat(us_str) * 10 ^ (6 - Len(us_str))])
            ELSE parse_isotime_loop(timestr, pos, comp + 1, has_sep, components)
        Fraction(tz, number, frac) ==
            Step(tz, number, frac, SubSeq(rest, 1, Min(frac, 6)))
    IN  Fraction(parse_tzstr(PySlice(timestr, pos, Len(timestr))),
                 int_of_bytes(PySlice(timestr, at, at + 2)),
                 CHOOSE k \in 0..Len(rest) :
                    /\ \A i \in 1..k : IsDigit(SubSeq(rest, i, i))
                    /\ k = Len(rest) \/ ~IsDigit(SubSeq(rest, k + 1, k + 1)))

\* isoparser._parse_isotime: hh, hh:mm or hhmm, hh:mm:ss or hhmmss, a fraction of
\* the second, and a time zone after any of them.
parse_isotime(timestr) ==
    LET Checked(read) ==
            IF Len(timestr) < 2 THEN Raise("ValueError", "ISO time too short")
            ELSE IF read.kind = "raise" THEN read
            ELSE IF read.value.pos < Len(timestr)
            THEN Raise("ValueError", "Unused components in ISO string")
            ELSE IF /\ read.value.components[1] = 24
                    /\ \E i \in 2..4 : read.value.components[i] # 0
            THEN Raise("ValueError", "Hour may only be 24 at 24:00:00.000")
            ELSE read
    IN  Checked(parse_isotime_loop(timestr, 0, 0 - 1, FALSE, <<0, 0, 0, 0>>))

\* dateutil.parser.isoparse: the date, any one character, and the time if there is
\* more text than the date; 24:00 is the midnight that ends the day.
isoparser_isoparse(dt_str) ==
    LET \* the characters of a TLA+ string that are not ASCII: U+0080 to U+00FF
        beyond == " ¡¢£¤¥¦§¨©ª«¬­®¯°±²³´µ¶·¸¹º»¼½¾¿ÀÁÂÃÄÅÆÇÈÉÊËÌÍÎÏÐÑÒÓÔÕÖ×ØÙÚÛÜÝÞßàáâãäåæçèéêëìíîïðñòóôõö÷øùúûüýþÿ"
        Made(hour, made) ==
            IF made.kind = "raise" \/ hour # 24 THEN made
            ELSE IF made.value.t + ymd2ord(2021, 2, 28) + 1 > ymd2ord(9999, 12, 31)
            THEN Raise("OverflowError", "date value out of range")
            ELSE Return([made.value EXCEPT !.t = made.value.t + 1])
        Timed(ymd, time) ==
            IF time.kind = "raise" THEN time
            ELSE Made(time.value.components[1],
                      datetime(ymd[1], ymd[2], ymd[3],
                               IF time.value.components[1] = 24 THEN 0
                               ELSE time.value.components[1],
                               time.value.components[2], time.value.components[3],
                               time.value.components[4], time.value.tz))
        Dated(date) ==
            IF date.kind = "raise" THEN date
            ELSE Timed(date.value.ymd,
                       IF Len(dt_str) > date.value.pos
                       THEN parse_isotime(PySlice(dt_str, date.value.pos + 1, Len(dt_str)))
                       ELSE Return([components |-> <<0, 0, 0, 0>>,
                                    tz |-> [tzinfo |-> PyNone, utcoff |-> 0], pos |-> 0]))
        Common(common) ==
            Dated(IF common.kind = "return" THEN common ELSE parse_isodate_uncommon(dt_str))
    IN  IF \E i \in 1..Len(dt_str) : HasChar(beyond, SubSeq(dt_str, i, i))
        THEN Raise("ValueError", "ISO-8601 strings should contain only ASCII characters")
        ELSE Common(parse_isodate_common(dt_str))

\* A timestamp as the services write it: day t of March 2021, the time of the day
\* and the time zone, which is Z, an offset from UTC or nothing.
IsoString(t, clock, zone) == "2021-03-" \o zfill(t, 2) \o "T" \o clock \o zone

\* The timestamps the services of this model send, each with what isoparse makes of
\* it, worked out once.
Parsed ==
    [dt_str \in {IsoString(t, clock, zone) :
                    t \in (StartDay - WINDOW - 1)..StartDay,
                    clock \in {"00:00:00", "00:00:01", "00:30:00"},
                    zone \in {"", "Z", "+00:00", "+01:00"}}
        |-> isoparser_isoparse(dt_str)]

\* isoparse(dt_str), as the script calls it.
isoparse(dt_str) ==
    LET Lookup(known) ==
            IF dt_str \in DOMAIN known THEN known[dt_str] ELSE isoparser_isoparse(dt_str)
    IN  Lookup(Parsed)

\* The datetimes of this model (the days about the cutoff, the times of the day and
\* the time zones of IsoString), each with its str(), worked out once.
Printed ==
    [dt \in [t : (StartDay - WINDOW - 1)..StartDay, secs : {0, 1, 1800}, micros : {0},
             tzinfo : {PyNone, "UTC"}, utcoff : {0}]
                \cup [t : (StartDay - WINDOW - 1)..StartDay, secs : {0, 1, 1800},
                      micros : {0}, tzinfo : {"tzoffset(None, 3600)"}, utcoff : {60}]
        |-> datetime_str(dt)]

\* str() of a datetime, as the f-strings of as_html take it.
str_datetime(dt) ==
    LET Lookup(known) ==
            IF dt \in DOMAIN known THEN known[dt] ELSE datetime_str(dt)
    IN  Lookup(Printed)

(***************************************************************************)
(* class Outcome                                                           *)
(***************************************************************************)
Outcomes == {"PASS", "FAIL", "ERROR", "INCOMPLETE"}

OutcomeValue(oc) ==
    CASE oc = "PASS" -> "PASSED"
      [] oc = "FAIL" -> "FAILED"
      [] oc = "ERROR" -> "ERRORED"
      [] oc = "INCOMPLETE" -> "INCOMPLETE"

\* Attribute lookup on the Enum class: a member, or AttributeError.
OutcomeMember(name) ==
    IF name \in Outcomes THEN Return(name) ELSE Raise("AttributeError", name)

from_conclusion(concl) ==
    IF concl = "success" THEN OutcomeMember("PASS")
    ELSE IF concl = "failure" THEN OutcomeMember("FAIL")
    ELSE IF concl = "timed_out" THEN OutcomeMember("ERRROR")
    ELSE IF concl \in {"neutral", "action_required", "cancelled", "skipped", "stale"}
         THEN OutcomeMember("INCOMPLETE")
    ELSE Raise("ValueError", "Unknown GitHub workflow conclusion: " \o repr(concl))

\* A classifier that takes a status it does not know for an incomplete build.
from_appveyor_status_with_default(st) ==
    IF st = "success" THEN OutcomeMember("PASS")
    ELSE IF st = "failed" THEN OutcomeMember("FAIL")
    ELSE OutcomeMember("INCOMPLETE")

from_appveyor_status(status) ==
    IF status = "success" THEN OutcomeMember("PASS")
    ELSE IF status = "failed" THEN OutcomeMember("FAIL")
    ELSE IF status = "cancelled" THEN OutcomeMember("INCOMPLETE")
    ELSE Raise("ValueError", "Unknown Appveyor status: " \o repr(status))

Outcome_as_html(oc) ==
    IF oc = "PASS" THEN "<span style=\"color: green\">PASS</span>"
    ELSE IF oc = "FAIL" THEN "<span style=\"color: red\">FAIL</span>"
    ELSE IF oc = "ERROR" THEN "<span style=\"color: red; text-weight: bold\">ERROR</span>"
    ELSE "<span style=\"color: grey\">&#x2014;</span>"

(***************************************************************************)
(* collections.Counter, as the sequence of its <<element, count>> items.   *)
(***************************************************************************)
CounterKeys(c) == {c[i][1] : i \in 1..Len(c)}

CounterGet(c, elem) ==
    IF elem \in CounterKeys(c)
    THEN LET i == CHOOSE k \in 1..Len(c) : c[k][1] = elem IN c[i][2]
    ELSE 0

\* self[elem] = n + self.get(elem, 0): a new key goes last.
CounterAdd(c, elem, n) ==
    IF elem \in CounterKeys(c)
    THEN [i \in 1..Len(c) |-> IF c[i][1] = elem THEN <<elem, c[i][2] + n>> ELSE c[i]]
    ELSE Append(c, <<elem, n>>)

RECURSIVE CounterOfFrom(_, _)
CounterOfFrom(c, elems) ==
    IF Len(elems) = 0 THEN c
    ELSE CounterOfFrom(CounterAdd(c, elems[1], 1), Tail(elems))

\* Counter(iterable)
CounterOf(elems) == CounterOfFrom(<<>>, elems)

RECURSIVE CounterUpdate(_, _)
\* Counter.update(other Counter)
CounterUpdate(c, d) ==
    IF Len(d) = 0 THEN c
    ELSE CounterUpdate(CounterAdd(c, d[1][1], d[1][2]), Tail(d))

(***************************************************************************)
(* The record classes of the report.                                       *)
(***************************************************************************)
JobStatus(name, url, timestamp, outcome) ==
    [name |-> name, url |-> url, timestamp |-> timestamp, outcome |-> outcome]

JobStatus_as_html(j) ==
    Outcome_as_html(j.outcome) \o " <a href=\"" \o j.url \o "\">" \o escape(j.name)
        \o "</a> " \o str_datetime(j.timestamp)

WorkflowStatus(file, name, build_id, url, timestamp, outcome, jobs) ==
    [file |-> file, name |-> name, build_id |-> build_id, url |-> url,
     timestamp |-> timestamp, outcome |-> outcome, jobs |-> jobs]

\* A summary that also counts the run's own outcome.
WorkflowStatus_get_summary_counting_run(self) ==
    CounterOf(<<self.outcome>> \o [i \in 1..Len(self.jobs) |-> self.jobs[i].outcome])

WorkflowStatus_get_summary(self) ==
    CounterOf([i \in 1..Len(self.jobs) |-> self.jobs[i].outcome])

WorkflowStatus_as_html(self) ==
    "<p>" \o Outcome_as_html(self.outcome) \o " <a href=\"" \o self.url \o "\">"
        \o escape(self.name) \o " #" \o ToString(self.build_id) \o "</a> "
        \o str_datetime(self.timestamp) \o "</p>\n<ul>\n"
        \o Concat([i \in 1..Len(self.jobs) |->
                      "<li>" \o JobStatus_as_html(self.jobs[i]) \o "</li>\n"])
        \o "</ul>\n"

ClientStatus(client_id, build_id, timestamp, artifact_url, tests) ==
    [type |-> "ClientStatus", client_id |-> client_id, build_id |-> build_id,
     timestamp |-> timestamp, artifact_url |-> artifact_url, tests |-> tests]

ClientStatus_get_summary(self) ==
    CounterOf([i \in 1..Len(self.tests) |-> self.tests[i][2]])

ClientStatus_as_html(self) ==
    "<p>" \o escape(self.client_id) \o " #" \o ToString(self.build_id)
        \o " [<a href=\"" \o self.artifact_url \o "\">download logs</a>] "
        \o str_datetime(self.timestamp) \o "</p><ul>\n"
        \o Concat([i \in 1..Len(self.tests) |->
                      "<li>" \o Outcome_as_html(self.tests[i][2]) \o " "
                          \o escape(self.tests[i][1]) \o "</li>\n"])
        \o "</ul>"

ResultProcessError(client_id, build_id, timestamp, url) ==
    [type |-> "ResultProcessError", client_id |-> client_id, build_id |-> build_id,
     timestamp |-> timestamp, url |-> url]

ResultProcessError_get_summary(self) == CounterOf(<<"ERROR">>)

ResultProcessError_as_html(self) ==
    Outcome_as_html("ERROR") \o " processing results for " \o escape(self.client_id)
        \o " #" \o ToString(self.build_id) \o " [<a href=\"" \o self.url \o "\">logs</a>] "
        \o str_datetime(self.timestamp)

\* The method the object's class gives: a client entry is of either class.
cstatus_get_summary(self) ==
    IF self.type = "ClientStatus" THEN ClientStatus_get_summary(self)
    ELSE ResultProcessError_get_summary(self)

cstatus_as_html(self) ==
    IF self.type = "ClientStatus" THEN ClientStatus_as_html(self)
    ELSE ResultProcessError_as_html(self)

AppveyorJob(build_id, id, name, outcome) ==
    [build_id |-> build_id, id |-> id, name |-> name, outcome |-> outcome]

AppveyorJob_url(self) ==
    "https://ci.appveyor.com/project/" \o APPVEYOR_PROJECT \o "/builds/"
        \o ToString(self.build_id) \o "/job/" \o self.id

AppveyorJob_as_html(self) ==
    Outcome_as_html(self.outcome) \o " <a href=\"" \o AppveyorJob_url(self) \o "\">"
        \o escape(self.name) \o "</a>"

AppveyorBuild(id, version, timestamp, outcome, jobs) ==
    [id |-> id, version |-> version, timestamp |-> timestamp, outcome |-> outcome,
     jobs |-> jobs]

AppveyorBuild_url(self) ==
    "https://ci.appveyor.com/project/" \o APPVEYOR_PROJECT \o "/builds/" \o ToString(self.id)

AppveyorBuild_get_summary(self) ==
    CounterOf([i \in 1..Len(self.jobs) |-> self.jobs[i].outcome])

AppveyorBuild_as_html(self) ==
    "<p>" \o Outcome_as_html(self.outcome) \o " <a href=\"" \o AppveyorBuild_url(self)
        \o "\">" \o self.version \o "</a> " \o str_datetime(self.timestamp) \o "</p>\n<ul>\n"
        \o Concat([i \in 1..Len(self.jobs) |->
                      "<li>" \o AppveyorJob_as_html(self.jobs[i]) \o "</li>\n"])
        \o "</ul>\n"

DailyStatus(github_runs, client_runs, all_clients, appveyor_builds) ==
    [github_runs |-> github_runs, client_runs |-> client_runs,
     all_clients |-> all_clients, appveyor_builds |-> appveyor_builds]

(***************************************************************************)
(* DailyStatus.get_subject_body                                            *)
(***************************************************************************)
\* The loop state of get_subject_body: the pieces of body and the Counter qtys.
RECURSIVE GithubLoop(_, _)
GithubLoop(acc, runs) ==
    IF Len(runs) = 0 THEN acc
    ELSE GithubLoop(
            [body |-> acc.body \o <<"<li>", WorkflowStatus_as_html(runs[1]), "</li>\n">>,
             qtys |-> CounterUpdate(acc.qtys, WorkflowStatus_get_summary(runs[1]))],
            Tail(runs))

\* An anchor attribute given to every client entry.
idattr_always(client_id, seen) == " id=\"" \o client_id \o "\""

\* The anchor attribute of a client entry: only an id not seen before gets one.
idattr(client_id, seen) ==
    IF client_id \notin seen THEN " id=\"" \o client_id \o "\"" ELSE ""

RECURSIVE ClientLoop(_, _, _)
ClientLoop(acc, seen, entries) ==
    IF Len(entries) = 0 THEN acc
    ELSE LET cstatus == entries[1] IN
         ClientLoop(
            [body |-> acc.body \o <<"<li" \o idattr(cstatus.client_id, seen) \o ">",
                                    cstatus_as_html(cstatus), "</li>\n">>,
             qtys |-> CounterUpdate(acc.qtys, cstatus_get_summary(cstatus))],
            seen \cup {cstatus.client_id},
            Tail(entries))

RECURSIVE AppveyorLoop(_, _)
AppveyorLoop(acc, builds) ==
    IF Len(builds) = 0 THEN acc
    ELSE AppveyorLoop(
            [body |-> acc.body \o <<"<li>", AppveyorBuild_as_html(builds[1]), "</li>\n">>,
             qtys |-> CounterUpdate(acc.qtys, AppveyorBuild_get_summary(builds[1]))],
            Tail(builds))

missing_workflows(self) ==
    Range(WORKFLOWS) \ {self.github_runs[i].file : i \in 1..Len(self.github_runs)}

\* The absent clients, when only a ClientStatus counts as a client's presence.
missing_clients_ignoring_errors(self) ==
    self.all_clients \ {self.client_runs[i].client_id :
                            i \in {k \in 1..Len(self.client_runs) :
                                      self.client_runs[k].type = "ClientStatus"}}

missing_clients(self) ==
    self.all_clients \ {self.client_runs[i].client_id : i \in 1..Len(self.client_runs)}

\* ", ".join(f"{n} {oc.value}" for oc, n in qtys.items())
TallyText(qtys) ==
    Join([i \in 1..Len(qtys) |-> ToString(qtys[i][2]) \o " " \o OutcomeValue(qtys[i][1])],
         ", ")

\* A subject line that lists the tally whenever anything is counted or absent.
SubjectOf_absent_first(qtys, absent) ==
    IF Len(qtys) > 0 \/ absent # 0
    THEN WORKFLOW_REPO \o " daily summary: " \o TallyText(qtys)
            \o (IF absent # 0 THEN ", " \o ToString(absent) \o " ABSENT" ELSE "")
    ELSE WORKFLOW_REPO \o " daily summary: NOTHING"

\* The subject line, from the tally and the count of absent sources.
SubjectOf(qtys, absent) ==
    IF Len(qtys) > 0
    THEN WORKFLOW_REPO \o " daily summary: " \o TallyText(qtys)
            \o (IF absent # 0 THEN ", " \o ToString(absent) \o " ABSENT" ELSE "")
    ELSE WORKFLOW_REPO \o " daily summary: NOTHING"

get_subject_body(self) ==
    LET a0 == [body |-> <<"<ul>\n<li><p>GitHub:</p>\n<ul>\n">>, qtys |-> <<>>]
        a1 == IF Len(self.github_runs) > 0 THEN GithubLoop(a0, self.github_runs)
              ELSE [a0 EXCEPT !.body = @ \o <<"<li>[no runs]</li>\n">>]
        a2 == [a1 EXCEPT !.body = @ \o <<"</ul>\n</li>\n<li><p>Local Clients:</p>\n<ul>\n">>]
        a3 == IF Len(self.client_runs) > 0 THEN ClientLoop(a2, {}, self.client_runs)
              ELSE [a2 EXCEPT !.body = @ \o <<"<li>[no runs]</li>\n">>]
        a4 == [a3 EXCEPT !.body = @ \o <<"</ul>\n</li>\n<li><p>Appveyor Builds:</p>\n<ul>\n">>]
        a5 == IF Len(self.appveyor_builds) > 0 THEN AppveyorLoop(a4, self.appveyor_builds)
              ELSE [a4 EXCEPT !.body = @ \o <<"<li>[no builds]</li>\n">>]
        a6 == [a5 EXCEPT !.body = @ \o <<"</ul>\n</li>\n</ul>">>]
        absent == Cardinality(missing_workflows(self)) + Cardinality(missing_clients(self))
        subject == SubjectOf(a6.qtys, absent)
    IN  [subject |-> subject,
         qtys |-> a6.qtys,
         body |-> <<"<!DOCTYPE html>\n", "<html lang=\"en\">\n", "<head>\n",
                    "<meta http-equiv=\"Content-Type\" content=\"text/html; charset=utf-8\">\n",
                    "<title>" \o subject \o "</title>\n", "</head>\n", "<body>\n">>
                  \o a6.body \o <<"\n", "</body>\n", "</html>">>]

(***************************************************************************)
(* State.                                                                  *)
(***************************************************************************)
VARIABLES
    pc,                 \* where main() is: a phase, "done" or "raised"
    cutoff,             \* main's cutoff: now - WINDOW
    all_clients,        \* the keys of clients.yaml
    wfi,                \* index in WORKFLOWS of the workflow being scanned
    run,                \* the loop variable run: <<>> or <<the run>>
    r,                  \* main's last HTTP response r: <<>> or <<the response>>
    github_statuses,    \* main's list of WorkflowStatus
    client_statuses,    \* main's list of ClientStatus | ResultProcessError
    appveyor_builds,    \* main's list of AppveyorBuild
    gen,                \* the generator get_appveyor_builds
    build,              \* the loop variable build: <<>> or <<the build>>
    exc,                \* the exception that ended main: <<>> or <<the exception>>
    qtys,               \* the Counter of get_subject_body when it returned
    subject,            \* main's subject: <<>> or <<the string>>
    body,               \* main's body: the pieces of the string
    stdout,             \* the lines printed
    outfile,            \* what the output file holds: <<>> (not written) or the pieces
    focus               \* the service whose records vary in this run

vars == <<focus, pc, cutoff, all_clients, wfi, run, r, github_statuses, client_statuses,
          appveyor_builds, gen, build, exc, qtys, subject, body, stdout, outfile>>

\* The Report main() or a caller has put together.
status == DailyStatus(github_statuses, client_statuses, all_clients, appveyor_builds)

JobCount(runs) ==
    LET RECURSIVE Sum(_)
        Sum(s) == IF Len(s) = 0 THEN 0 ELSE Len(s[1].jobs) + Sum(Tail(s))
    IN  Sum(runs)

\* The number of records of the Report: its entries and their jobs and tests.
Size ==
    LET RECURSIVE TestCount(_)
        TestCount(s) == IF Len(s) = 0 THEN 0
                        ELSE (IF s[1].type = "ClientStatus" THEN Len(s[1].tests) ELSE 0)
                             + TestCount(Tail(s))
    IN  Len(github_statuses) + JobCount(github_statuses)
            + Len(client_statuses) + TestCount(client_statuses)
            + Len(appveyor_builds) + JobCount(appveyor_builds)

\* How many jobs or tests a new entry of the Report may still bring: the lists hold
\* MaxSize records when the Report is built directly, MaxGathered when main() gathers.
Room ==
    LET Budget == IF focus = "none" THEN MaxSize ELSE MaxGathered
    IN  IF Size + 1 <= Budget THEN Budget - Size - 1 ELSE 0

(***************************************************************************)
(* What the remote services and the configuration may hold.                *)
(***************************************************************************)
ClientIds == {"alpha", "beta"}

utc(t) == [t |-> t, secs |-> 0, micros |-> 0, tzinfo |-> "UTC", utcoff |-> 0]

\* The frame of get_appveyor_builds before its first request: params holds no
\* startBuildId (0), no page is held, nothing of it was yielded.
IdleGen == [recordsNumber |-> 20, startBuildId |-> 0, builds |-> <<>>, yielded |-> 0,
            requests |-> 0]

(***************************************************************************)
(* SpecRender: get_subject_body on every Report up to MaxSize records.     *)
(***************************************************************************)
\* What from_conclusion, from_appveyor_status and a test's return code can give.
\* The outcomes sampled for a run or a build as a whole, and for a job of either.
RunOutcomes == {"PASS", "INCOMPLETE"}

JobOutcomes == {"PASS", "FAIL"}

SampleJobs ==
    {JobStatus("build & test", "https://github.com/job", utc(StartDay), oc) :
        oc \in JobOutcomes}

\* The dicts of at most n tests: the items in insertion order, the names distinct.
TestDicts(n) ==
    {d \in SeqsUpTo({<<"annex", "PASS">>, <<"t<1>", "FAIL">>}, IF n < 2 THEN n ELSE 2) :
        \A i, j \in 1..Len(d) : i # j => d[i][1] # d[j][1]}

SampleAppveyorJobs ==
    {AppveyorJob(7, "j1", "Environment: <x>", oc) : oc \in JobOutcomes}

InitRender ==
    /\ focus = "none"
    /\ pc = "construct"
    /\ cutoff = utc(StartDay - WINDOW)
    /\ all_clients \in {{}, ClientIds}
    /\ wfi = 1
    /\ run = <<>>
    /\ r = <<>>
    /\ github_statuses = <<>>
    /\ client_statuses = <<>>
    /\ appveyor_builds = <<>>
    /\ gen = IdleGen
    /\ build = <<>>
    /\ exc = <<>>
    /\ qtys = <<>>
    /\ subject = <<>>
    /\ body = <<>>
    /\ stdout = <<>>
    /\ outfile = <<>>

RenderIdle == UNCHANGED <<focus, cutoff, all_clients, wfi, run, r, gen, build, exc, stdout, outfile>>

NewWorkflowStatus ==
    /\ pc = "construct"
    /\ \E i \in 1..Len(WORKFLOWS), oc \in RunOutcomes,
          jobs \in SeqsUpTo(SampleJobs, Room) :
          LET file == WORKFLOWS[i] IN
          /\ Size + 1 + Len(jobs) <= MaxSize
          \* main() scans the workflows in the order of WORKFLOWS
          /\ \A k \in 1..Len(github_statuses) :
                \E j \in 1..i : WORKFLOWS[j] = github_statuses[k].file
          /\ github_statuses' = Append(github_statuses,
                 WorkflowStatus(file, "Build on " \o file, 1, "https://github.com/run",
                                utc(StartDay), oc, jobs))
    /\ UNCHANGED <<pc, client_statuses, appveyor_builds, qtys, subject, body>>
    /\ RenderIdle

NewClientStatus ==
    /\ pc = "construct"
    /\ \E id \in ClientIds, tests \in TestDicts(Room) :
          /\ Size + 1 + Len(tests) <= MaxSize
          /\ client_statuses' = Append(client_statuses,
                 ClientStatus(id, 42, utc(StartDay), "https://github.com/artifact", tests))
    /\ UNCHANGED <<pc, github_statuses, appveyor_builds, qtys, subject, body>>
    /\ RenderIdle

NewResultProcessError ==
    /\ pc = "construct"
    /\ \E id \in ClientIds :
          /\ Size + 1 <= MaxSize
          /\ client_statuses' = Append(client_statuses,
                 ResultProcessError(id, 42, utc(StartDay), "https://github.com/run"))
    /\ UNCHANGED <<pc, github_statuses, appveyor_builds, qtys, subject, body>>
    /\ RenderIdle

NewAppveyorBuild ==
    /\ pc = "construct"
    /\ \E oc \in RunOutcomes, jobs \in SeqsUpTo(SampleAppveyorJobs, Room) :
          /\ Size + 1 + Len(jobs) <= MaxSize
          /\ appveyor_builds' = Append(appveyor_builds,
                 AppveyorBuild(7, "8.20.1", utc(StartDay), oc, jobs))
    /\ UNCHANGED <<pc, github_statuses, client_statuses, qtys, subject, body>>
    /\ RenderIdle

\* (subject, body) = status.get_subject_body()
CallGetSubjectBody ==
    /\ pc = "construct"
    /\ \E sb \in {get_subject_body(status)} :
          /\ subject' = <<sb.subject>>
          /\ body' = sb.body
          /\ qtys' = sb.qtys
    /\ pc' = "returned"
    /\ UNCHANGED <<github_statuses, client_statuses, appveyor_builds>>
    /\ RenderIdle

NextRender ==
    \/ NewWorkflowStatus
    \/ NewClientStatus
    \/ NewResultProcessError
    \/ NewAppveyorBuild
    \/ CallGetSubjectBody

SpecRender == InitRender /\ [][NextRender]_vars

(***************************************************************************)
(* Spec: main().  What the services answer is chosen at each request.      *)
(***************************************************************************)
\* Conclusions GitHub may send: the documented ones and some it does not document.
Conclusions ==
    {"success", "failure", "timed_out", "neutral", "action_required", "cancelled",
     "skipped", "stale", "startup_failure", PyNone}

\* The statuses from_appveyor_status names, and one it does not.
AppveyorStatuses == {"success", "failed", "cancelled", "running"}

Raised(e, at) == <<[type |-> e.value, msg |-> e.msg, at |-> at]>>

\* The first result of a sequence of calls that is a raise, as <<it>>, or <<>>.
FirstRaise(results) ==
    LET bad == {i \in 1..Len(results) : results[i].kind = "raise"}
    IN  IF bad = {} THEN <<>> ELSE <<results[CHOOSE i \in bad : \A j \in bad : i <= j]>>

\* One service at a time holds records of every kind; the others hold plain ones.
Init ==
    /\ focus \in {"github", "clients", "appveyor"}
    /\ pc = "github"
    /\ cutoff = utc(StartDay - WINDOW)
    /\ all_clients = ClientIds
    /\ wfi = 1
    /\ run = <<>>
    /\ r = <<>>
    /\ github_statuses = <<>>
    /\ client_statuses = <<>>
    /\ appveyor_builds = <<>>
    /\ gen = IdleGen
    /\ build = <<>>
    /\ exc = <<>>
    /\ qtys = <<>>
    /\ subject = <<>>
    /\ body = <<>>
    /\ stdout = <<>>
    /\ outfile = <<>>

Untouched == UNCHANGED <<focus, cutoff, all_clients, qtys, subject, body, stdout, outfile>>

(***************************************************************************)
(* The hosted-workflow loop.                                               *)
(***************************************************************************)
HostedRun(st, event, day, conclusion) ==
    [status |-> st, event |-> event, created_at |-> [utc(day) EXCEPT !.tzinfo = PyNone],
     conclusion |-> conclusion, run_number |-> 7, html_url |-> "https://github.com/run"]

\* The runs a workflow's list may hold.  A run not yet completed has no conclusion;
\* the conclusion of a completed run varies where the loop reads it.
HostedRuns ==
    {HostedRun("in_progress", ev, d, PyNone) :
        ev \in {"schedule", "push"}, d \in {StartDay - WINDOW, StartDay - WINDOW + 1}}
    \cup {HostedRun("completed", "push", d, "success") :
            d \in {StartDay - WINDOW, StartDay - WINDOW + 1}}
    \cup {HostedRun("completed", ev, d, "success") :
            ev \in {"schedule", "workflow_dispatch"}, d \in {StartDay - WINDOW - 1, StartDay - WINDOW}}
    \cup {HostedRun("completed", ev, StartDay - WINDOW + 1, c) :
            ev \in {"schedule", "workflow_dispatch"}, c \in Conclusions}

\* The conclusions tried on jobs: one for each branch of from_conclusion.
JobConclusions == {"success", "failure", "timed_out", "startup_failure"}

JobJsons ==
    {[name |-> "build & test", html_url |-> "https://github.com/job",
      started_at |-> IsoString(StartDay, "00:00:00", "+00:00"), conclusion |-> c] :
        c \in JobConclusions}

\* What a request for the jobs of a run may answer.
JobsResponses ==
    {[ok |-> FALSE, json |-> <<>>]}
        \cup {[ok |-> TRUE, json |-> js] :
                js \in SeqsUpTo(JobJsons, IF focus = "github" THEN Room ELSE 0)}

\* The runs listed: of every kind, or a passed scheduled run inside or outside the window.
HostedRunsListed ==
    IF focus = "github" THEN HostedRuns
    ELSE {HostedRun("completed", "schedule", d, "success") :
            d \in {StartDay - WINDOW, StartDay - WINDOW + 1}}

\* A hosted scan that skips nothing but runs not completed.
hosted_skips_ignoring_event(rn) == rn.status # "completed"

\* The test of the continue statement of the hosted loop.
hosted_skips(rn) ==
    rn.status # "completed" \/ rn.event \notin {"schedule", "workflow_dispatch"}

\* The test of the break statement: dt <= cutoff.
at_or_before_cutoff(dt) == datetime_le(dt, cutoff)

\* The comparison was made and is true: the break is taken.
Breaks(c) == c.kind = "return" /\ c.value

\* The comparison was made and is false: the loop body goes on.
GoesOn(c) == c.kind = "return" /\ ~c.value

\* The for statement over WORKFLOWS goes on to the next file, or main to the clients.
\* The names run and r stay bound to what they last held.
NextWorkflow ==
    /\ r' = r
    /\ IF wfi < Len(WORKFLOWS)
       THEN wfi' = wfi + 1 /\ pc' = "github"
       ELSE wfi' = wfi /\ pc' = "clients"

GithubIdle == UNCHANGED <<client_statuses, appveyor_builds, gen, build>>

\* get_repo, get_workflow or a page of get_runs fails.
GithubListingFails ==
    /\ pc = "github"
    /\ pc' = "raised"
    /\ exc' = Raised(Raise("GithubException", "listing"), "github")
    /\ UNCHANGED <<wfi, run, r, github_statuses>>
    /\ GithubIdle /\ Untouched

\* The run list of the workflow has no more runs.
GithubRunsExhausted ==
    /\ pc = "github"
    /\ NextWorkflow
    /\ run' = run
    /\ UNCHANGED <<github_statuses, exc>>
    /\ GithubIdle /\ Untouched

\* continue
GithubRunSkipped ==
    /\ pc = "github"
    /\ \E rn \in HostedRunsListed :
          /\ hosted_skips(rn)
          /\ run' = <<rn>>
    /\ UNCHANGED <<pc, wfi, r, github_statuses, exc>>
    /\ GithubIdle /\ Untouched

\* break
GithubRunStale ==
    /\ pc = "github"
    /\ \E rn \in HostedRunsListed :
          /\ ~hosted_skips(rn)
          /\ Breaks(at_or_before_cutoff(ensure_aware(rn.created_at)))
          /\ run' = <<rn>>
    /\ NextWorkflow
    /\ UNCHANGED <<github_statuses, exc>>
    /\ GithubIdle /\ Untouched

\* The results of the calls made for a run that is kept: for each job the parse of
\* its start time and the classification of its conclusion, then that of the run.
HostedClassifications(rn, resp) ==
    [k \in 1..(2 * Len(resp.json)) |->
        IF k % 2 = 1 THEN isoparse(resp.json[(k + 1) \div 2].started_at)
        ELSE from_conclusion(resp.json[k \div 2].conclusion)]
        \o <<from_conclusion(rn.conclusion)>>

\* The jobs are fetched and the run is appended.
GithubRunRetained ==
    /\ pc = "github"
    /\ \E rn \in HostedRunsListed :
          /\ ~hosted_skips(rn)
          /\ GoesOn(at_or_before_cutoff(ensure_aware(rn.created_at)))
          /\ run' = <<rn>>
          /\ \E resp \in JobsResponses :
                \E calls \in {HostedClassifications(rn, resp)} :
                /\ resp.ok
                /\ Size + 1 + Len(resp.json) <= MaxGathered
                /\ FirstRaise(calls) = <<>>
                /\ r' = <<resp>>
                /\ github_statuses' = Append(github_statuses,
                      WorkflowStatus(
                          WORKFLOWS[wfi],
                          "Build on " \o WORKFLOWS[wfi],
                          rn.run_number,
                          rn.html_url,
                          ensure_aware(rn.created_at),
                          Last(calls).value,
                          [i \in 1..Len(resp.json) |->
                              JobStatus(resp.json[i].name, resp.json[i].html_url,
                                        calls[2 * i - 1].value, calls[2 * i].value)]))
    /\ UNCHANGED <<pc, wfi, exc>>
    /\ GithubIdle /\ Untouched

\* The request for the jobs fails, or a conclusion is not classified.
GithubRunRaises ==
    /\ pc = "github"
    /\ \E rn \in HostedRunsListed :
          /\ ~hosted_skips(rn)
          /\ GoesOn(at_or_before_cutoff(ensure_aware(rn.created_at)))
          /\ run' = <<rn>>
          /\ \E resp \in JobsResponses :
                \E raised \in {FirstRaise(HostedClassifications(rn, resp))} :
                /\ r' = <<resp>>
                /\ IF ~resp.ok
                   THEN exc' = Raised(Raise("HTTPError", "jobs"), "github")
                   ELSE /\ raised # <<>>
                        /\ exc' = Raised(raised[1], "github")
    /\ pc' = "raised"
    /\ UNCHANGED <<wfi, github_statuses>>
    /\ GithubIdle /\ Untouched

(***************************************************************************)
(* get_client_test_outcomes and the client-result loop.                    *)
(***************************************************************************)
\* The entries of an artifact archive, in the order of the archive: a name, with the
\* directories before it, and the text of the file.
ZipEntries ==
    {[name |-> "annex.rc", text |-> "0\r\n"], [name |-> "t<1>.rc", text |-> "1"],
     [name |-> "build.log", text |-> "ok"], [name |-> "t<1>.rc", text |-> "killed"],
     [name |-> "logs/annex.rc", text |-> "1"]}

RECURSIVE RStripSlash(_)
\* at.rstrip("/")
RStripSlash(at) ==
    IF Len(at) > 0 /\ SubSeq(at, Len(at), Len(at)) = "/"
    THEN RStripSlash(SubSeq(at, 1, Len(at) - 1))
    ELSE at

RECURSIVE TopLevelNames(_)
\* Of the names of the archive, those iterdir() lists for the root: the names with
\* no directory before them.  A name the archive holds twice is listed twice.
TopLevelNames(entries) ==
    IF Len(entries) = 0 THEN <<>>
    ELSE (IF HasChar(RStripSlash(entries[1].name), "/") THEN <<>> ELSE <<entries[1].name>>)
            \o TopLevelNames(Tail(entries))

RECURSIVE ImpliedDirs(_, _, _)
\* The directories of the root the names imply and the archive does not hold, each
\* once, which the listing of the names ends with.
ImpliedDirs(found, left, entries) ==
    IF Len(left) = 0 THEN found
    ELSE LET b == RStripSlash(left[1].name)
             slashes == {i \in 1..Len(b) : SubSeq(b, i, i) = "/"}
             k == IF slashes = {} THEN 0 ELSE CHOOSE i \in slashes : \A j \in slashes : i <= j
             d == SubSeq(b, 1, k - 1) \o "/"
         IN  IF /\ k > 1
                /\ d \notin Range(found)
                /\ \A i \in 1..Len(entries) : entries[i].name # d
             THEN ImpliedDirs(Append(found, d), Tail(left), entries)
             ELSE ImpliedDirs(found, Tail(left), entries)

\* ZipPath(fp).iterdir(): the paths of the root of the archive.
iterdir(entries) == TopLevelNames(entries) \o ImpliedDirs(<<>>, entries, entries)

RECURSIVE UniversalNewlines(_)
\* What a file opened in text mode gives for its text: "\r\n" and "\r" read as "\n".
UniversalNewlines(text) ==
    IF Len(text) = 0 THEN ""
    ELSE IF SubSeq(text, 1, 1) # "\r"
    THEN SubSeq(text, 1, 1) \o UniversalNewlines(SubSeq(text, 2, Len(text)))
    ELSE "\n" \o UniversalNewlines(SubSeq(text, IF PySlice(text, 1, 2) = "\n" THEN 3 ELSE 2,
                                           Len(text)))

\* p.read_text() for the file at: the text of the last entry of that name, read in
\* text mode.
read_text(entries, at) ==
    UniversalNewlines(entries[CHOOSE i \in 1..Len(entries) :
                /\ entries[i].name = at
                /\ \A k \in (i + 1)..Len(entries) : entries[k].name # at].text)

RECURSIVE ScanArchive(_, _, _)
\* The loop over the paths of the root: tests so far, paths left, the archive.
ScanArchive(tests, paths, entries) ==
    IF Len(paths) = 0 THEN Return(tests)
    ELSE LET at == paths[1]
             name == RStripSlash(at)
         IN  IF EndsWith(name, ".rc")
             THEN IF EndsWith(at, "/") THEN Raise("IsADirectoryError", at)
                  ELSE LET rc == int_of_str(read_text(entries, at)) IN
                       IF rc.kind = "raise" THEN rc
                       ELSE ScanArchive(
                               DictSet(tests, SubSeq(name, 1, Len(name) - 3),
                                       IF rc.value = 0 THEN "PASS" ELSE "FAIL"),
                               Tail(paths), entries)
             ELSE ScanArchive(tests, Tail(paths), entries)

\* download: [ok, entries], what the request for the archive answers.
get_client_test_outcomes(download) ==
    IF ~download.ok THEN Raise("HTTPError", "archive")
    ELSE ScanArchive(<<>>, iterdir(download.entries), download.entries)

ClientRun(st, day, branch, conclusion) ==
    [status |-> st, created_at |-> [utc(day) EXCEPT !.tzinfo = PyNone],
     head_branch |-> branch, conclusion |-> conclusion,
     html_url |-> "https://github.com/client-run", check_suite_id |-> 5]

Branches == {"result-alpha-42", "result-beta-007", "result-a-b-1", "main"}

\* The runs the handle-result workflow may list.
ClientRuns ==
    {ClientRun("in_progress", d, "result-alpha-42", PyNone) :
        d \in {StartDay - WINDOW, StartDay - WINDOW + 1}}
    \cup {ClientRun("completed", d, "result-alpha-42", "success") :
            d \in {StartDay - WINDOW - 1, StartDay - WINDOW}}
    \cup {ClientRun("completed", StartDay - WINDOW + 1, b, c) :
            b \in Branches, c \in Conclusions}

Artifact(download) ==
    [id |-> 3, archive_download_url |-> "https://api.github.com/zip", download |-> download]

Archives ==
    {[ok |-> FALSE, entries |-> <<>>]}
        \cup {[ok |-> TRUE, entries |-> es] : es \in SeqsUpTo(ZipEntries, Room)}

\* The runs listed: of every kind, or a failed run inside or outside the window.
ClientRunsListed ==
    IF focus = "clients" THEN ClientRuns
    ELSE {ClientRun("completed", d, "result-alpha-42", "failure") :
            d \in {StartDay - WINDOW, StartDay - WINDOW + 1}}

\* What a request for the artifacts of a run may answer: none, one or two artifacts.
ArtifactsResponses ==
    {[ok |-> FALSE, json |-> <<>>], [ok |-> TRUE, json |-> <<>>]}
        \cup {[ok |-> TRUE, json |-> <<Artifact(a)>>] : a \in Archives}
        \cup {[ok |-> TRUE,
               json |-> <<Artifact([ok |-> TRUE, entries |-> <<>>]),
                          Artifact([ok |-> TRUE, entries |-> <<>>])>>]}

\* The test of line 308: Outcome.from_conclusion(run.conclusion) is Outcome.PASS
client_is_pass(concl) == concl.kind = "return" /\ concl.value = "PASS"

ClientIdle == UNCHANGED <<wfi, github_statuses, appveyor_builds, gen, build>>

\* get_repo, get_workflow or a page of get_runs fails.
ClientListingFails ==
    /\ pc = "clients"
    /\ pc' = "raised"
    /\ exc' = Raised(Raise("GithubException", "listing"), "clients")
    /\ UNCHANGED <<run, r, client_statuses>>
    /\ ClientIdle /\ Untouched

ClientRunsExhausted ==
    /\ pc = "clients"
    /\ pc' = "appveyor"
    /\ UNCHANGED <<run, r>>
    /\ UNCHANGED <<client_statuses, exc>>
    /\ ClientIdle /\ Untouched

\* continue
ClientRunSkipped ==
    /\ pc = "clients"
    /\ \E rn \in ClientRunsListed :
          /\ rn.status # "completed"
          /\ run' = <<rn>>
    /\ UNCHANGED <<pc, r, client_statuses, exc>>
    /\ ClientIdle /\ Untouched

\* break
ClientRunStale ==
    /\ pc = "clients"
    /\ \E rn \in ClientRunsListed :
          /\ rn.status = "completed"
          /\ Breaks(at_or_before_cutoff(ensure_aware(rn.created_at)))
          /\ run' = <<rn>>
    /\ pc' = "appveyor"
    /\ r' = r
    /\ UNCHANGED <<client_statuses, exc>>
    /\ ClientIdle /\ Untouched

\* What lines 306-335 do with a run that is completed and inside the window, given
\* what the artifacts request would answer: an entry to append, or an exception.
ClientEntry(rn, resp) ==
    LET m == match_result_branch(rn.head_branch)
        concl == from_conclusion(rn.conclusion)
        dt == ensure_aware(rn.created_at)
    IN  IF m = <<>> THEN Raise("AssertionError", "")
        ELSE IF concl.kind = "raise" THEN concl
        ELSE IF client_is_pass(concl)
        THEN IF ~resp.ok THEN Raise("HTTPError", "artifacts")
             ELSE IF Len(resp.json) # 1 THEN Raise("ValueError", "unpack")
             ELSE LET artifact == resp.json[1]
                      tests == get_client_test_outcomes(artifact.download)
                  IN  IF tests.kind = "raise" THEN tests
                      ELSE Return(ClientStatus(
                              m[1].g1, ParseNat(m[1].g2), dt,
                              "https://github.com/" \o CLIENTS_REPO \o "/suites/"
                                  \o ToString(rn.check_suite_id) \o "/artifacts/"
                                  \o ToString(artifact.id),
                              tests.value))
        ELSE Return(ResultProcessError(m[1].g1, ParseNat(m[1].g2), dt, rn.html_url))

\* Whether lines 306-335 request the artifacts of the run.
ClientFetchesArtifacts(rn) ==
    /\ match_result_branch(rn.head_branch) # <<>>
    /\ client_is_pass(from_conclusion(rn.conclusion))

\* What the request for the artifacts of the run may answer, if the loop makes it.
ClientAsked(rn) ==
    IF ClientFetchesArtifacts(rn) THEN ArtifactsResponses
    ELSE {[ok |-> FALSE, json |-> <<>>]}

\* An entry is appended: a ClientStatus or a ResultProcessError.
ClientRunAppended ==
    /\ pc = "clients"
    /\ \E rn \in ClientRunsListed :
          /\ rn.status = "completed"
          /\ GoesOn(at_or_before_cutoff(ensure_aware(rn.created_at)))
          /\ run' = <<rn>>
          /\ \E resp \in ClientAsked(rn) :
                \E entry \in {ClientEntry(rn, resp)} :
                   /\ entry.kind = "return"
                   /\ Size + 1 + (IF entry.value.type = "ClientStatus"
                                  THEN Len(entry.value.tests) ELSE 0)
                         <= MaxGathered
                   /\ client_statuses' = Append(client_statuses, entry.value)
                   /\ r' = IF ClientFetchesArtifacts(rn) THEN <<resp>> ELSE r
    /\ UNCHANGED <<pc, exc>>
    /\ ClientIdle /\ Untouched

\* The branch name, the conclusion, the artifacts or the archive end main.
ClientRunRaises ==
    /\ pc = "clients"
    /\ \E rn \in ClientRunsListed :
          /\ rn.status = "completed"
          /\ GoesOn(at_or_before_cutoff(ensure_aware(rn.created_at)))
          /\ run' = <<rn>>
          /\ \E resp \in ClientAsked(rn) :
                \E entry \in {ClientEntry(rn, resp)} :
                   /\ entry.kind = "raise"
                   /\ exc' = Raised(entry, "clients")
                   /\ r' = IF ClientFetchesArtifacts(rn) THEN <<resp>> ELSE r
    /\ pc' = "raised"
    /\ UNCHANGED <<client_statuses>>
    /\ ClientIdle /\ Untouched

(***************************************************************************)
(* get_appveyor_builds and the third-party-build loop.                     *)
(***************************************************************************)
BuildJson(id, finished, st) ==
    [buildId |-> id, version |-> "8.20." \o ToString(id), finished |-> finished,
     status |-> st, started |-> IsoString(StartDay, "00:00:00", "+00:00")]

\* What a build of the history may be, but for its id: not finished, finished at or
\* before the cutoff, finished inside the window with any status, or with a finish
\* time that bears no UTC offset.
BuildKinds ==
    {[finished |-> PyNone, status |-> "running"],
     [finished |-> IsoString(StartDay - WINDOW, "00:00:00", ""), status |-> "success"],
     [finished |-> IsoString(StartDay - WINDOW, "00:00:00", "+00:00"), status |-> "success"],
     [finished |-> IsoString(StartDay - WINDOW, "00:30:00", "+01:00"), status |-> "success"],
     [finished |-> IsoString(StartDay - WINDOW, "00:00:01", "Z"), status |-> "success"]}
        \cup {[finished |-> IsoString(StartDay - WINDOW + 1, "00:00:00", "+00:00"),
                status |-> st] :
                st \in AppveyorStatuses}

\* The builds listed: of every kind, or a passed build inside or outside the window.
BuildKindsListed ==
    IF focus = "appveyor" THEN BuildKinds
    ELSE {[finished |-> IsoString(d, "00:00:00", "+00:00"), status |-> "success"] :
            d \in {StartDay - WINDOW, StartDay - WINDOW + 1}}

\* The id of the newest build of the history.
NewestBuildId == 49

\* The service lists builds from the newest on, or from the one before startBuildId.
TopBuildId(g) == IF g.startBuildId = 0 THEN NewestBuildId + 1 ELSE g.startBuildId

\* The builds of the history the generator g was answered so far.
Served(g) == NewestBuildId + 1 - TopBuildId(g)

\* The generator has a build of its page left to yield.
GenHasNext == gen.yielded < Len(gen.builds)

\* params after the page was yielded: params["startBuildId"] = builds[-1]["buildId"]
GenResumed ==
    IF Len(gen.builds) > 0
    THEN [gen EXCEPT !.startBuildId = gen.builds[Len(gen.builds)]]
    ELSE gen

\* The builds the history may hold: several pages of them where the build service is
\* the one looked at, else one build.
HistoryListed == IF focus = "appveyor" THEN MaxHistory ELSE 1

AppveyorIdle == UNCHANGED <<wfi, run, r, github_statuses, client_statuses>>

\* The generator requests a page of the history and holds it.  Of the builds of the
\* page the generator reads the last id alone: what a build is shows when it is yielded.
AppveyorPageFetched ==
    /\ pc = "appveyor"
    /\ ~GenHasNext
    /\ Served(GenResumed) < HistoryListed
    /\ \E n \in 1..Min(Min(MaxPageLen, gen.recordsNumber),
                       HistoryListed - Served(GenResumed)) :
          gen' = [GenResumed EXCEPT !.builds = [k \in 1..n |-> TopBuildId(GenResumed) - k],
                                    !.yielded = 0, !.requests = @ + 1]
    /\ UNCHANGED <<pc, build, appveyor_builds, exc>>
    /\ AppveyorIdle /\ Untouched

\* The history answers no builds: the generator returns and the loop ends.
AppveyorHistoryEnds ==
    /\ pc = "appveyor"
    /\ ~GenHasNext
    /\ gen' = [GenResumed EXCEPT !.builds = <<>>, !.yielded = 0, !.requests = @ + 1]
    /\ pc' = "report"
    /\ build' = build
    /\ UNCHANGED <<appveyor_builds, exc>>
    /\ AppveyorIdle /\ Untouched

\* The request for a page of the history fails.
AppveyorHistoryFails ==
    /\ pc = "appveyor"
    /\ ~GenHasNext
    /\ gen' = [GenResumed EXCEPT !.requests = @ + 1]
    /\ pc' = "raised"
    /\ exc' = Raised(Raise("HTTPError", "history"), "appveyor")
    /\ UNCHANGED <<build, appveyor_builds>>
    /\ AppveyorIdle /\ Untouched

\* The builds the generator may yield next.
NextBuilds ==
    {BuildJson(gen.builds[gen.yielded + 1], k.finished, k.status) : k \in BuildKindsListed}

Yield == gen' = [gen EXCEPT !.yielded = @ + 1]

\* continue
AppveyorBuildSkipped ==
    /\ pc = "appveyor"
    /\ GenHasNext
    /\ \E b \in NextBuilds :
          /\ b.finished = PyNone
          /\ build' = <<b>>
    /\ Yield
    /\ UNCHANGED <<pc, appveyor_builds, exc>>
    /\ AppveyorIdle /\ Untouched

\* The parse of the finish time and the test of the break statement of the build
\* loop, finished <= cutoff: a finish time that is not ISO 8601 does not parse, one
\* without a time zone does not compare with the cutoff.
appveyor_stops(b) ==
    LET Compared(finished) ==
            IF finished.kind = "raise" THEN finished
            ELSE at_or_before_cutoff(finished.value)
    IN  Compared(isoparse(b.finished))

\* break
AppveyorBuildStale ==
    /\ pc = "appveyor"
    /\ GenHasNext
    /\ \E b \in NextBuilds :
          /\ b.finished # PyNone
          /\ Breaks(appveyor_stops(b))
          /\ build' = <<b>>
    /\ Yield
    /\ pc' = "report"
    /\ UNCHANGED <<appveyor_builds, exc>>
    /\ AppveyorIdle /\ Untouched

AppveyorJobJsons ==
    {[jobId |-> "j1", name |-> "Environment: <x>", status |-> st] :
        st \in {"success", "failed", "running"}}

\* What the request for the detail of a build may answer.
BuildResponses ==
    {[ok |-> FALSE, json |-> <<>>]}
        \cup {[ok |-> TRUE, json |-> js] :
                js \in SeqsUpTo(AppveyorJobJsons,
                                IF focus = "appveyor" THEN Room ELSE 0)}

\* The results of the calls made for a build that is kept: the classification of
\* the build, the parse of its start time, then the classifications of its jobs.
AppveyorClassifications(b, resp) ==
    <<from_appveyor_status(b.status), isoparse(b.started)>>
        \o [i \in 1..Len(resp.json) |-> from_appveyor_status(resp.json[i].status)]

\* The detail is fetched and the build is appended.
AppveyorBuildRetained ==
    /\ pc = "appveyor"
    /\ GenHasNext
    /\ \E b \in NextBuilds :
          /\ b.finished # PyNone
          /\ GoesOn(appveyor_stops(b))
          /\ build' = <<b>>
          /\ \E resp \in BuildResponses :
                \E calls \in {AppveyorClassifications(b, resp)} :
                /\ resp.ok
                /\ Size + 1 + Len(resp.json) <= MaxGathered
                /\ FirstRaise(calls) = <<>>
                /\ r' = <<resp>>
                /\ appveyor_builds' = Append(appveyor_builds,
                      AppveyorBuild(
                          b.buildId,
                          b.version,
                          calls[2].value,
                          calls[1].value,
                          [i \in 1..Len(resp.json) |->
                              AppveyorJob(b.buildId, resp.json[i].jobId,
                                          resp.json[i].name, calls[i + 2].value)]))
    /\ Yield
    /\ UNCHANGED <<pc, exc>>
    /\ UNCHANGED <<wfi, run, github_statuses, client_statuses>> /\ Untouched

\* A loop that gives up the scan, not the run, when a build cannot be fetched or
\* classified.
AppveyorBuildRaises_swallowed ==
    /\ pc = "appveyor"
    /\ GenHasNext
    /\ \E b \in NextBuilds :
          /\ b.finished # PyNone
          /\ GoesOn(appveyor_stops(b))
          /\ build' = <<b>>
          /\ \E resp \in BuildResponses :
                /\ r' = <<resp>>
                /\ \/ ~resp.ok
                   \/ FirstRaise(AppveyorClassifications(b, resp)) # <<>>
    /\ Yield
    /\ pc' = "report"
    /\ UNCHANGED <<appveyor_builds, exc>>
    /\ UNCHANGED <<wfi, run, github_statuses, client_statuses>> /\ Untouched

\* The finish time does not compare with the cutoff, the request for the detail
\* fails, or a status is not classified.
AppveyorBuildRaises ==
    /\ pc = "appveyor"
    /\ GenHasNext
    /\ \E b \in NextBuilds :
          /\ b.finished # PyNone
          /\ build' = <<b>>
          /\ \E stops \in {appveyor_stops(b)} :
                \/ /\ stops.kind = "raise"
                   /\ r' = r
                   /\ exc' = Raised(stops, "appveyor")
                \/ /\ GoesOn(stops)
                   /\ \E resp \in BuildResponses :
                         \E raised \in {FirstRaise(AppveyorClassifications(b, resp))} :
                            /\ r' = <<resp>>
                            /\ IF ~resp.ok
                               THEN exc' = Raised(Raise("HTTPError", "build"), "appveyor")
                               ELSE /\ raised # <<>>
                                    /\ exc' = Raised(raised[1], "appveyor")
    /\ Yield
    /\ pc' = "raised"
    /\ UNCHANGED <<appveyor_builds>>
    /\ UNCHANGED <<wfi, run, github_statuses, client_statuses>> /\ Untouched

(***************************************************************************)
(* The end of main(): the subject is printed, then the file is opened and   *)
(* the body written; open() fails when the path cannot be written.          *)
(***************************************************************************)
Report ==
    /\ pc = "report"
    /\ \E sb \in {get_subject_body(status)} :
          /\ subject' = <<sb.subject>>
          /\ body' = sb.body
          /\ qtys' = sb.qtys
          /\ stdout' = Append(stdout, sb.subject)
          /\ \/ /\ outfile' = sb.body \o <<"\n">>
                /\ pc' = "done"
                /\ exc' = exc
             \/ /\ outfile' = outfile
                /\ pc' = "raised"
                /\ exc' = Raised(Raise("OSError", "open"), "report")
    /\ UNCHANGED <<focus, cutoff, all_clients, wfi, run, r, github_statuses,
                   client_statuses, appveyor_builds, gen, build>>

Next ==
    \/ GithubListingFails
    \/ GithubRunsExhausted
    \/ GithubRunSkipped
    \/ GithubRunStale
    \/ GithubRunRetained
    \/ GithubRunRaises
    \/ ClientListingFails
    \/ ClientRunsExhausted
    \/ ClientRunSkipped
    \/ ClientRunStale
    \/ ClientRunAppended
    \/ ClientRunRaises
    \/ AppveyorPageFetched
    \/ AppveyorHistoryEnds
    \/ AppveyorHistoryFails
    \/ AppveyorBuildSkipped
    \/ AppveyorBuildStale
    \/ AppveyorBuildRetained
    \/ AppveyorBuildRaises
    \/ Report

Spec == Init /\ [][Next]_vars

(***************************************************************************)
(* Properties of get_subject_body (SpecRender).                            *)
(***************************************************************************)
\* The records of the Report counted one by one, for one outcome.
HostedJobsWith(oc) ==
    {<<i, j>> \in (1..Len(github_statuses)) \X (1..MaxSize) :
        /\ j <= Len(github_statuses[i].jobs)
        /\ github_statuses[i].jobs[j].outcome = oc}

ClientTestsWith(oc) ==
    {<<i, j>> \in (1..Len(client_statuses)) \X (1..MaxSize) :
        /\ client_statuses[i].type = "ClientStatus"
        /\ j <= Len(client_statuses[i].tests)
        /\ client_statuses[i].tests[j][2] = oc}

ClientErrors == {i \in 1..Len(client_statuses) : client_statuses[i].type = "ResultProcessError"}

ThirdPartyJobsWith(oc) ==
    {<<i, j>> \in (1..Len(appveyor_builds)) \X (1..MaxSize) :
        /\ j <= Len(appveyor_builds[i].jobs)
        /\ appveyor_builds[i].jobs[j].outcome = oc}

ExpectedTally(oc) ==
    Cardinality(HostedJobsWith(oc)) + Cardinality(ClientTestsWith(oc))
        + (IF oc = "ERROR" THEN Cardinality(ClientErrors) ELSE 0)
        + Cardinality(ThirdPartyJobsWith(oc))

TotalTally ==
    ExpectedTally("PASS") + ExpectedTally("FAIL") + ExpectedTally("ERROR")
        + ExpectedTally("INCOMPLETE")

AbsentWorkflowFiles ==
    {f \in {"build-ubuntu.yaml", "build-macos.yaml", "build-windows.yaml"} :
        \A i \in 1..Len(github_statuses) : github_statuses[i].file # f}

AbsentKnownClients ==
    {c \in all_clients : \A i \in 1..Len(client_statuses) : client_statuses[i].client_id # c}

AbsenceCount == Cardinality(AbsentWorkflowFiles) + Cardinality(AbsentKnownClients)

\* sub in s: sub stands at some place of s (looked for by its first character).
Contains(s, sub) ==
    LET StandsAt(first) ==
            \E k \in 1..(Len(s) - Len(sub) + 1) :
                SubSeq(s, k, k) = first /\ SubSeq(s, k, k + Len(sub) - 1) = sub
    IN  Len(sub) = 0 \/ StandsAt(SubSeq(sub, 1, 1))

Returned == pc = "returned"

\* C8: the tally behind the subject holds, for each outcome, one count per job of
\* every hosted run, one per test of every ClientRun, one Error per ClientError and
\* one per third-party job, and nothing else (no run-level or build-level outcome);
\* the subject lists exactly the outcomes counted, each with its count.
C8_TallyCountsLeavesOnly ==
    Returned =>
        /\ \A oc \in Outcomes : CounterGet(qtys, oc) = ExpectedTally(oc)
        /\ \A i, j \in 1..Len(qtys) : qtys[i][1] = qtys[j][1] => i = j
        /\ \A oc \in Outcomes :
              Contains(subject[1], " " \o OutcomeValue(oc)) <=> ExpectedTally(oc) > 0
        /\ \A oc \in Outcomes :
              ExpectedTally(oc) > 0 =>
                  Contains(subject[1], " " \o ToString(ExpectedTally(oc)) \o " " \o OutcomeValue(oc))

\* C8 witness: a hosted run that passed, with two jobs success/failure, tallied {Pass:1, Fail:1}.
C8_Witness ==
    /\ Returned
    /\ Len(github_statuses) = 1 /\ Len(client_statuses) = 0 /\ Len(appveyor_builds) = 0
    /\ github_statuses[1].outcome = "PASS"
    /\ Len(github_statuses[1].jobs) = 2
    /\ github_statuses[1].jobs[1].outcome = "PASS"
    /\ github_statuses[1].jobs[2].outcome = "FAIL"
    /\ qtys = <<<<"PASS", 1>>, <<"FAIL", 1>>>>
    /\ StartsWith(subject[1], "datalad/git-annex daily summary: 1 PASSED, 1 FAILED")

\* C4: with no run and no build from any source the subject is exactly the NOTHING
\* subject and each section of the body holds its placeholder; and the subject is the
\* NOTHING subject exactly when nothing is tallied.
C4_NothingSubject ==
    Returned =>
        /\ (subject[1] = "datalad/git-annex daily summary: NOTHING") <=> (TotalTally = 0)
        /\ (Len(github_statuses) = 0 /\ Len(client_statuses) = 0 /\ Len(appveyor_builds) = 0)
              => /\ subject[1] = "datalad/git-annex daily summary: NOTHING"
                 /\ \E g, c, a \in 2..(Len(body) - 1) :
                       /\ g + 2 = c /\ c + 2 = a
                       /\ body[g - 1] = "<ul>\n<li><p>GitHub:</p>\n<ul>\n"
                       /\ body[g] = "<li>[no runs]</li>\n"
                       /\ body[c - 1] = "</ul>\n</li>\n<li><p>Local Clients:</p>\n<ul>\n"
                       /\ body[c] = "<li>[no runs]</li>\n"
                       /\ body[a - 1] = "</ul>\n</li>\n<li><p>Appveyor Builds:</p>\n<ul>\n"
                       /\ body[a] = "<li>[no builds]</li>\n"
                       /\ body[a + 1] = "</ul>\n</li>\n</ul>"

\* C4 witness: get_subject_body has returned for a Report with no runs and no builds.
C4_Witness ==
    /\ Returned
    /\ Len(github_statuses) = 0 /\ Len(client_statuses) = 0 /\ Len(appveyor_builds) = 0
    /\ subject[1] = "datalad/git-annex daily summary: NOTHING"

\* C3 as stated: whenever a workflow file or a known client is absent, the subject
\* ends with the absence count as "<n> ABSENT", whatever the Report holds.
C3_AbsentAlwaysShown ==
    Returned =>
        (AbsenceCount # 0 => EndsWith(subject[1], ToString(AbsenceCount) \o " ABSENT"))

\* C3 amended: each known client with no ClientRun and no ClientError adds one to the
\* absence count (absent workflow files + absent known clients), and when that count
\* is nonzero and at least one outcome is tallied the subject ends with
\* ", <n> ABSENT"; when nothing is tallied the subject is the NOTHING subject, which
\* carries no absence count.
C3_AbsentShownWhenTallied ==
    Returned =>
        /\ (AbsenceCount # 0 /\ TotalTally > 0)
              => EndsWith(subject[1], ", " \o ToString(AbsenceCount) \o " ABSENT")
        /\ (AbsenceCount = 0 \/ TotalTally = 0) => ~Contains(subject[1], "ABSENT")

\* C3 witness: every workflow file has a run, the known client alpha has a
\* ClientError and the known client beta has no entry: the one Error is tallied,
\* the absence count is the one absent client and the subject ends with it.
C3_Witness ==
    /\ Returned
    /\ all_clients = {"alpha", "beta"}
    /\ AbsentWorkflowFiles = {}
    /\ AbsentKnownClients = {"beta"}
    /\ ClientErrors # {}
    /\ AbsenceCount = 1
    /\ subject[1] = "datalad/git-annex daily summary: 1 ERRORED, 1 ABSENT"

\* The other case of C3: every workflow file has a run and every known client an
\* entry, and something is tallied; the subject lists the tally and ends there.
C3_NothingAbsent ==
    /\ Returned
    /\ AbsenceCount = 0
    /\ ClientErrors # {}
    /\ subject[1] = "datalad/git-annex daily summary: 1 ERRORED"

\* The pieces of body between two of its section headers.
BodyBetween(from, to) ==
    LET f == CHOOSE k \in 1..Len(body) : body[k] = from
        t == CHOOSE k \in 1..Len(body) : body[k] = to
    IN  SubSeq(body, f + 1, t - 1)

IsListItemOpener(piece) == StartsWith(piece, "<li") /\ EndsWith(piece, ">")

\* The opening tags of the client entries, in the order rendered.
ClientOpeners ==
    SelectSeq(BodyBetween("</ul>\n</li>\n<li><p>Local Clients:</p>\n<ul>\n",
                          "</ul>\n</li>\n<li><p>Appveyor Builds:</p>\n<ul>\n"),
              IsListItemOpener)

FirstOfItsClient(i) ==
    \A k \in 1..(i - 1) : client_statuses[k].client_id # client_statuses[i].client_id

\* C9: in the body exactly the first entry of each client identifier, ClientRun or
\* ClientError, carries the anchor id="<clientId>"; later entries of the same client
\* are rendered with a plain <li>, so no anchor occurs twice.
C9_AnchorOnFirstEntryOnly ==
    Returned =>
        /\ Len(ClientOpeners) = Len(client_statuses)
        /\ \A i \in 1..Len(client_statuses) :
              ClientOpeners[i] =
                  IF FirstOfItsClient(i)
                  THEN "<li id=\"" \o client_statuses[i].client_id \o "\">"
                  ELSE "<li>"
        /\ \A i, j \in 1..Len(ClientOpeners) :
              (i # j /\ ClientOpeners[i] = ClientOpeners[j]) => ClientOpeners[i] = "<li>"

\* C9 witness: a ClientError and then a ClientRun of the same client, and an entry of
\* another client; the first and the third are anchored, the second is not.
C9_Witness ==
    /\ Returned
    /\ Len(client_statuses) = 3
    /\ client_statuses[1].type = "ResultProcessError"
    /\ client_statuses[2].type = "ClientStatus"
    /\ client_statuses[1].client_id = "alpha"
    /\ client_statuses[2].client_id = "alpha"
    /\ client_statuses[3].client_id = "beta"
    /\ ClientOpeners = <<"<li id=\"alpha\">", "<li>", "<li id=\"beta\">">>

(***************************************************************************)
(* Properties of main() (Spec).                                            *)
(***************************************************************************)
\* The phase main() is in, or was in when it raised.
PhaseOf == IF pc = "raised" THEN exc[1].at ELSE pc

ListingFailed(e) == e # <<>> /\ e[1].type = "GithubException"

InWindow(dt) ==
    LET x == Instant(dt)
        c == Instant(cutoff)
    IN  \/ x[1] > c[1]
        \/ x[1] = c[1] /\ x[2] > c[2]
        \/ x[1] = c[1] /\ x[2] = c[2] /\ x[3] > c[3]

Unknown(conclusion) ==
    conclusion \notin {"success", "failure", "timed_out", "neutral", "action_required",
                       "cancelled", "skipped", "stale"}

UnknownAppveyor(st) == st \notin {"success", "failed", "cancelled"}

\* The fixed table of the hosted-workflow conclusions.
TableOutcome(conclusion) ==
    CASE conclusion = "success" -> "PASS"
      [] conclusion = "failure" -> "FAIL"
      [] conclusion = "timed_out" -> "ERROR"
      [] conclusion \in {"neutral", "action_required", "cancelled", "skipped", "stale"}
            -> "INCOMPLETE"

\* The hosted run rn passes the filters of the scan and resp holds its jobs.
HostedKept(rn, resp) ==
    /\ rn # <<>> /\ resp # <<>>
    /\ "event" \in DOMAIN rn[1]
    /\ rn[1].status = "completed"
    /\ rn[1].event \in {"schedule", "workflow_dispatch"}
    /\ InWindow(rn[1].created_at)
    /\ resp[1].ok

\* C1: every recognized conclusion is classified by the fixed table; a run inside
\* the window whose conclusions (its own and its jobs') are all recognized is
\* appended with the outcomes of the table, timed_out counting as Error, and main()
\* goes on.
C1_ConclusionTable ==
    (/\ PhaseOf = "github"
     /\ ~ListingFailed(exc)
     /\ HostedKept(run, r)
     /\ ~Unknown(run[1].conclusion)
     /\ \A i \in 1..Len(r[1].json) : ~Unknown(r[1].json[i].conclusion))
    => /\ pc = "github"
       /\ Len(github_statuses) > 0
       /\ Last(github_statuses).outcome = TableOutcome(run[1].conclusion)
       /\ Len(Last(github_statuses).jobs) = Len(r[1].json)
       /\ \A i \in 1..Len(r[1].json) :
             Last(github_statuses).jobs[i].outcome = TableOutcome(r[1].json[i].conclusion)

\* A hosted run, with the answer to the request for its jobs, that bears a
\* conclusion outside the vocabulary.
UnknownHosted(rn, resp) ==
    /\ HostedKept(rn, resp)
    /\ \/ Unknown(rn[1].conclusion)
       \/ \E i \in 1..Len(resp[1].json) : Unknown(resp[1].json[i].conclusion)

UnknownClient(rn) ==
    /\ rn # <<>>
    /\ "head_branch" \in DOMAIN rn[1]
    /\ rn[1].status = "completed"
    /\ InWindow(rn[1].created_at)
    /\ Unknown(rn[1].conclusion)

FinishedAt(b) == isoparse(b.finished).value

\* The finish time of the build bears its UTC offset, and so compares with the cutoff.
FinishedWithOffset(b) ==
    /\ b.finished # PyNone
    /\ isoparse(b.finished).kind = "return"
    /\ FinishedAt(b).tzinfo # PyNone

UnknownBuild(b, resp) ==
    /\ b # <<>>
    /\ FinishedWithOffset(b[1])
    /\ InWindow(FinishedAt(b[1]))
    /\ resp # <<>> /\ resp[1].ok
    /\ \/ UnknownAppveyor(b[1].status)
       \/ \E i \in 1..Len(resp[1].json) : UnknownAppveyor(resp[1].json[i].status)

ReportLists == <<github_statuses, client_statuses, appveyor_builds>>

ClassificationError(e) ==
    /\ e # <<>>
    /\ e[1].type \in {"ValueError", "AttributeError", "AssertionError"}

\* C2: a status outside the vocabulary, in a hosted run or job, a client run, a
\* third-party build or job, makes the classification raise: main() ends with the
\* error, nothing is appended for the record and no default outcome stands in.
C2_UnknownStatusRaises ==
    [][/\ (pc = "github" /\ UnknownHosted(run', r'))
            => (pc' = "raised" /\ ClassificationError(exc') /\ UNCHANGED ReportLists)
       /\ (pc = "clients" /\ UnknownClient(run'))
            => (pc' = "raised" /\ ClassificationError(exc') /\ UNCHANGED ReportLists)
       /\ (pc = "appveyor" /\ UnknownBuild(build', r'))
            => (pc' = "raised" /\ exc' # <<>> /\ exc'[1].type = "ValueError"
                /\ UNCHANGED ReportLists)
       /\ (pc' = "raised" /\ exc' # <<>> /\ exc'[1].type = "ValueError"
           /\ StartsWith(exc'[1].msg, "Unknown "))
            => \/ pc = "github" /\ UnknownHosted(run', r')
               \/ pc = "clients" /\ UnknownClient(run')
               \/ pc = "appveyor" /\ UnknownBuild(build', r')
      ]_vars

\* C2 witness: a build inside the window that passed, whose job bears the status
\* "running": main() has raised ValueError and the build is not in the report.
C2_Witness ==
    /\ pc = "raised"
    /\ exc[1].at = "appveyor"
    /\ exc[1].type = "ValueError"
    /\ exc[1].msg = "Unknown Appveyor status: 'running'"
    /\ build[1].status = "success"
    /\ Len(r[1].json) = 1
    /\ r[1].json[1].status = "running"
    /\ \A i \in 1..Len(appveyor_builds) : appveyor_builds[i].id # build[1].buildId

\* What the branch of a result run names: the client id and the build id.
ExpectedClient(branch) ==
    CASE branch = "result-alpha-42" -> [client_id |-> "alpha", build_id |-> 42]
      [] branch = "result-beta-007" -> [client_id |-> "beta", build_id |-> 7]
      [] branch = "result-a-b-1" -> [client_id |-> "a-b", build_id |-> 1]

\* C5: a completed handle-result run inside the window, on a result branch, with a
\* conclusion that is classified as anything but Pass adds one ClientError entry
\* carrying the client id and the build id of the branch; main() goes on.
C5_NonPassGivesClientError ==
    (/\ PhaseOf = "clients"
     /\ ~ListingFailed(exc)
     /\ run # <<>>
     /\ "head_branch" \in DOMAIN run[1]
     /\ run[1].status = "completed"
     /\ InWindow(run[1].created_at)
     /\ run[1].head_branch \in {"result-alpha-42", "result-beta-007", "result-a-b-1"}
     /\ run[1].conclusion \in {"failure", "timed_out", "neutral", "action_required",
                               "cancelled", "skipped", "stale"})
    => /\ pc = "clients"
       /\ Len(client_statuses) > 0
       /\ Last(client_statuses).type = "ResultProcessError"
       /\ Last(client_statuses).client_id = ExpectedClient(run[1].head_branch).client_id
       /\ Last(client_statuses).build_id = ExpectedClient(run[1].head_branch).build_id

\* The step takes the next build from the history generator.
BuildTaken == pc = "appveyor" /\ gen'.yielded = gen.yielded + 1 /\ build' # <<>>

\* The build bears a finish time at or before the cutoff; a finish time written
\* without a UTC offset is read as UTC.
StaleBuild(b) ==
    /\ b[1].finished # PyNone
    /\ isoparse(b[1].finished).kind = "return"
    /\ ~InWindow(ensure_aware(FinishedAt(b[1])))

\* The build bears a finish time after the cutoff, read likewise.
FreshBuild(b) ==
    /\ b[1].finished # PyNone
    /\ isoparse(b[1].finished).kind = "return"
    /\ InWindow(ensure_aware(FinishedAt(b[1])))

\* No build of the report is the build the scan looks at or one listed after it.
NoneFromHereOn ==
    \A i \in 1..Len(appveyor_builds) :
        /\ appveyor_builds[i].id > build[1].buildId
        /\ \A k \in gen.yielded..Len(gen.builds) :
              k > 0 => appveyor_builds[i].id # gen.builds[k]

\* C6: the third-party scan ends at the first build that has a finish time at or
\* before the cutoff: nothing is appended for it, no detail and no further page is
\* requested, main() goes on to the report, and neither that build nor a build
\* listed after it is in the report.  A build with no finish time is passed over
\* and the scan goes on.
C6_AppveyorStopsAtCutoff ==
    /\ []((pc \in {"report", "done", "raised"} /\ build # <<>> /\ StaleBuild(build))
            => NoneFromHereOn)
    /\ [][/\ (BuildTaken /\ StaleBuild(build'))
               => /\ pc' = "report"
                  /\ gen'.requests = gen.requests
                  /\ UNCHANGED <<appveyor_builds, r, exc>>
          /\ (BuildTaken /\ build'[1].finished = PyNone)
               => /\ pc' = "appveyor"
                  /\ UNCHANGED <<appveyor_builds, r, exc>>
          /\ (pc = "appveyor" /\ appveyor_builds' # appveyor_builds)
               => /\ BuildTaken
                  /\ FreshBuild(build')
                  /\ Len(appveyor_builds') = Len(appveyor_builds) + 1
                  /\ Last(appveyor_builds').id = build'[1].buildId
          /\ (pc \in {"report", "done"}) => UNCHANGED <<gen, build, appveyor_builds>>
         ]_vars

\* C6, the failing case reached: on the second page of the history, after a build
\* was retained, the scan has met a build whose finish time is the cutoff written
\* without a UTC offset; main() has ended with TypeError instead of going on to the
\* report.
C6_Witness ==
    /\ pc = "raised"
    /\ exc[1].at = "appveyor"
    /\ exc[1].type = "TypeError"
    /\ exc[1].msg = "can't compare offset-naive and offset-aware datetimes"
    /\ build # <<>>
    /\ build[1].finished = IsoString(cutoff.t, "00:00:00", "")
    /\ StaleBuild(build)
    /\ gen.requests = 2
    /\ Len(appveyor_builds) > 0
    /\ stdout = <<>> /\ outfile = <<>>

\* C6 for the finish times that bear a UTC offset ("Z" or "+hh:mm"), where the code
\* does what the claim says: the scan ends at the first such build finished at or
\* before the cutoff, whatever the offset it is written with, and only builds
\* finished after the cutoff are appended.
C6_StopsWhenOffsetGiven ==
    /\ []((pc \in {"report", "done"} /\ build # <<>> /\ StaleBuild(build))
            => (FinishedWithOffset(build[1]) /\ NoneFromHereOn))
    /\ [][/\ (BuildTaken /\ StaleBuild(build') /\ FinishedWithOffset(build'[1]))
               => /\ pc' = "report"
                  /\ gen'.requests = gen.requests
                  /\ UNCHANGED <<appveyor_builds, r, exc>>
          /\ (BuildTaken /\ ~FinishedWithOffset(build'[1]) /\ build'[1].finished # PyNone)
               => /\ pc' = "raised"
                  /\ exc'[1].type = "TypeError"
                  /\ UNCHANGED <<appveyor_builds, r>>
          /\ (pc = "appveyor" /\ appveyor_builds' # appveyor_builds)
               => /\ BuildTaken
                  /\ FinishedWithOffset(build'[1])
                  /\ FreshBuild(build')
         ]_vars

\* The scan has met, on the second page of the history and after a build was
\* retained, a build finished at the cutoff by a clock one hour ahead of UTC, and
\* has stopped with a build of that page not looked at.
C6_StoppedAtOffsetBuild ==
    /\ pc = "report"
    /\ build # <<>>
    /\ build[1].finished = IsoString(cutoff.t, "00:30:00", "+01:00")
    /\ gen.requests = 2
    /\ gen.yielded < Len(gen.builds)
    /\ Len(appveyor_builds) > 0

FetchPhases == {"github", "clients", "appveyor"}

\* C7: a failure of a request, of a classification, of the parse of a branch or of
\* the count of the artifacts in any of the three fetch phases ends main() with the
\* exception, and then nothing was printed and nothing written; the subject is
\* printed and the file written only by the step that follows the end of the third
\* scan, which itself follows the end of the first two, and they are those of the
\* Report of all that was gathered.
C7_NoPartialReport ==
    /\ [](/\ (pc = "raised" /\ exc[1].at \in FetchPhases)
                => (stdout = <<>> /\ outfile = <<>>)
          /\ (exc # <<>>) <=> (pc = "raised")
          /\ (stdout # <<>> \/ outfile # <<>>)
                => /\ pc = "done" \/ (pc = "raised" /\ exc[1].at = "report")
                   /\ stdout = subject
          /\ outfile # <<>> => (pc = "done" /\ outfile = body \o <<"\n">>))
    /\ [][/\ (stdout' # stdout \/ outfile' # outfile) => (pc = "report" /\ exc = <<>>)
          /\ (r' # r /\ r' # <<>> /\ ~r'[1].ok) => (pc' = "raised" /\ pc \in FetchPhases)
          /\ (pc' = "report" /\ pc # "report") => (pc = "appveyor" /\ exc' = <<>>)
          /\ (pc' = "appveyor" /\ pc # "appveyor") => (pc = "clients" /\ exc' = <<>>)
          /\ (pc' = "clients" /\ pc # "clients")
                => (pc = "github" /\ wfi = Len(WORKFLOWS) /\ exc' = <<>>)
          /\ pc = "raised" => UNCHANGED vars
         ]_vars

\* C7 witness: runs of the first two scans were gathered, then the request for the
\* detail of a third-party build failed: nothing was printed or written.
C7_Witness ==
    /\ pc = "raised"
    /\ exc[1].at = "appveyor"
    /\ exc[1].type = "HTTPError"
    /\ Len(github_statuses) > 0
    /\ Len(client_statuses) > 0
    /\ stdout = <<>>
    /\ outfile = <<>>

\* A step of the scan of a hosted workflow that leaves run bound to a run: the run
\* it took from the list or, when the list has no more runs, the run taken before.
HostedTaken == pc = "github" /\ run' # <<>> /\ ~ListingFailed(exc')

HostedCounted(rn) ==
    rn[1].status = "completed" /\ rn[1].event \in {"schedule", "workflow_dispatch"}

ScanOfWorkflowEnds ==
    IF wfi < 3 THEN pc' = "github" /\ wfi' = wfi + 1 ELSE pc' = "clients"

\* C10, as stated: any run created at or before the cutoff, whatever its trigger and
\* whether completed or not, ends the scan of its workflow.
C10_AnyOldRunStops ==
    [][(HostedTaken /\ ~InWindow(run'[1].created_at)) => ScanOfWorkflowEnds]_vars

\* C10, amended: a run that is not completed, or that was not triggered by schedule
\* or workflow_dispatch, is passed over whatever its creation time and the scan of
\* the workflow goes on (the step that binds run to such a run changes nothing else); the scan of a workflow ends at the first completed
\* schedule/workflow_dispatch run created at or before the cutoff, and goes on with
\* the next workflow; a run is retained only if it is completed, triggered by
\* schedule or workflow_dispatch and created after the cutoff.
C10_HostedScanStopsAtCountedOldRun ==
    [][/\ (HostedTaken /\ HostedCounted(run') /\ ~InWindow(run'[1].created_at))
            => (ScanOfWorkflowEnds /\ UNCHANGED <<github_statuses, exc>>)
       /\ (HostedTaken /\ run' # run /\ ~HostedCounted(run'))
            => UNCHANGED <<pc, wfi, github_statuses, exc>>
       /\ (pc = "github" /\ github_statuses' # github_statuses)
            => /\ HostedTaken
               /\ HostedCounted(run')
               /\ InWindow(run'[1].created_at)
               /\ UNCHANGED <<pc, wfi>>
               /\ Len(github_statuses') = Len(github_statuses) + 1
               /\ Last(github_statuses').file = WORKFLOWS[wfi]
               /\ Last(github_statuses').timestamp.t = run'[1].created_at.t
               /\ Last(github_statuses').timestamp.tzinfo = "UTC"
      ]_vars

\* C10 witness: the scan of the first workflow retained a run, passed over runs and
\* ended at a scheduled run created at the cutoff; the second workflow is scanned.
C10_Witness ==
    /\ pc = "github"
    /\ wfi = 2
    /\ Len(github_statuses) > 0
    /\ run # <<>>
    /\ HostedCounted(run)
    /\ run[1].created_at.t = cutoff.t

====
